---- MODULE Spec2Model ----
(***************************************************************************)
(* A model of the feishu-codex-bridge conversation pipeline: the ingress   *)
(* adapter (FeishuServer.handleMessage), the conversation service          *)
(* (HandleMessage / processMessage / HandleCodexEvent), the conversation   *)
(* use case (Trigger, ResolveThread), the digest scheduler and the buffer  *)
(* store, together with the backend sub-process as an environment.         *)
(*                                                                         *)
(* Strings are sequences of tokens.  The tokens "[", "]", ":" and " " are  *)
(* single characters; "REACTION", "MENTION" and "MENTION_ALL" stand for    *)
(* those literal words; every other token is a run of ordinary letters.    *)
(***************************************************************************)
EXTENDS Integers, Sequences, FiniteSets, TLC

VARIABLES
    chatStates,     \* ConversationService.chatStates: chat -> ChatState
    pm,             \* the processMessage goroutine of each chat
    sessions,       \* the sessions table: chat -> Session
    turns,          \* the backend's turns, in turn/start order
    nextThread,     \* the backend's thread/start counter
    events,         \* notifications on their way to the event loop (FIFO)
    errorsSent,     \* error notifications the backend has emitted
    seenMsgs,       \* FeishuServer.seenMsgs
    nextMsg,        \* inbound messages delivered so far
    buffered,       \* the buffered_messages table
    whitelist,      \* the instant_whitelist table
    keywords,       \* the trigger_keywords table
    filterEnabled,  \* FilterUsecase.filterRepo != nil
    digestPending,  \* processDigests: the chats of the run still to handle
    digestRuns,     \* digest runs that found messages
    reqs,           \* history: the requests HandleMessage accepted
    replies,        \* history: the reply callback's calls
    sentTexts,      \* history: messageRepo.SendText calls outside replies
    last,           \* history: the HandleMessage call of the last step
    now,            \* the wall clock, in minutes
    probe           \* a call of one of the pure functions: its input and result

vars == <<chatStates, pm, sessions, turns, nextThread, events, errorsSent,
          seenMsgs, nextMsg, buffered, whitelist, keywords, filterEnabled,
          digestPending, digestRuns, reqs, replies, sentTexts, last, now, probe>>

----------------------------------------------------------------------------
\* Bounds of the model.

\* Inbound chat messages the platform delivers.
MaxMsgs == 2

\* Deltas the backend streams in one turn.
MaxDeltas == 1

\* Error notifications the backend emits.
MaxErrors == 1

\* Pieces a backend output is put together from.
MaxPieces == 3

\* Days the clock of the freshness check runs over.
MaxDays == 3

\* time.Hour steps in resetTime.Add(-24 * time.Hour).
HoursPerDay == 24

\* Messages in a chat's fetched history.
MaxHistory == 3

\* Create times of history messages run over 1..MaxTime.
MaxTime == 2

\* Messages triaged one after the other.
MaxTriaged == 3

\* Requests the ACP client sends, and lines it reads from the backend.
MaxRequests == 2
MaxLines == 3

\* Chats with buffered messages in the digest run that a shutdown meets.
MaxRunChats == 2

\* The buffer store's clock counts parts of a second: TicksPerSecond of them
\* make a second, and the clock runs to MaxTicks.
TicksPerSecond == 2
MaxTicks == 4

\* turn/completed notifications the backend sends a second time.
MaxAgain == 1

\* Goroutines the platform client starts for inbound events.
MaxHandlers == 3

\* The capacity of the two event channels, 100 in the program, in the
\* notifications of the model.
EventsCap == 2

\* Digest runs that find messages.  Every such run marks what it found, so
\* there are never more of them than messages.
MaxDigestRuns == 2

\* The wall clock's last reading.
MaxNow == 7

\* Client.Stop waits 5 seconds for the sub-process before it kills it.
KillWait == 5

\* FeishuServer.markMessageSeen keeps a record for 5 minutes.
DedupWindow == 5

\* The chats: one group chat and one private chat.
Chats == {"g1", "p1"}

ChatTypeOf(c) == IF c = "g1" THEN "group" ELSE "p2p"

\* Message contents the platform delivers.
Contents == {<<"hello">>, <<"De", "BUG", " ", "it">>}

\* The trigger_keywords table, as the tool surface filled it in earlier runs.
KeywordRows == {[keyword |-> <<"bug">>, priority |-> 2]}

\* The chats the instant_whitelist table may hold from earlier runs.
WhitelistChats == {"g1"}

MsgName(n) == "m" \o ToString(n)

\* The platform's create_time of the n-th message, in milliseconds: one with a
\* fraction of a second, the next on a whole second.
CreateTimeOf(n) == n * 1500
DigestMsgID(n) == "digest_" \o ToString(n)
ThreadName(n) == "th" \o ToString(n)
TurnName(n) == "turn" \o ToString(n)

\* What the backend streams as the k-th delta of its t-th turn: two
\* directives and a piece of text that names the turn and the delta.
Payload(t, k) ==
    <<"[", "REACTION", ":", "OK", "]", "[", "MENTION", ":", "u1", ":", "Al", "]",
      "out" \o ToString(t) \o "_" \o ToString(k), " ">>

----------------------------------------------------------------------------
\* Strings.

RECURSIVE Flatten(_)
Flatten(ss) == IF ss = <<>> THEN <<>> ELSE Head(ss) \o Flatten(Tail(ss))

\* The first index >= i at which s holds token t, or 0.
RECURSIVE IndexFrom(_, _, _)
IndexFrom(s, t, i) ==
    IF i > Len(s) THEN 0
    ELSE IF s[i] = t THEN i
    ELSE IndexFrom(s, t, i + 1)

\* The end of the match of \[REACTION:[^\]]+\] that starts at i, or 0.
ReactionMatchEnd(s, i) ==
    IF i + 4 <= Len(s) /\ s[i] = "[" /\ s[i + 1] = "REACTION" /\ s[i + 2] = ":"
       /\ s[i + 3] # "]"
    THEN IndexFrom(s, "]", i + 4)
    ELSE 0

\* The match of \[MENTION:([^:]+):([^\]]+)\] that starts at i:
\* <<end, index of the separating colon>>, or <<0, 0>>.
MentionMatch(s, i) ==
    IF i + 6 <= Len(s) /\ s[i] = "[" /\ s[i + 1] = "MENTION" /\ s[i + 2] = ":"
       /\ s[i + 3] # ":"
    THEN LET p == IndexFrom(s, ":", i + 4)
         IN IF p = 0 \/ p + 2 > Len(s) \/ s[p + 1] = "]" THEN <<0, 0>>
            ELSE LET q == IndexFrom(s, "]", p + 2)
                 IN IF q = 0 THEN <<0, 0>> ELSE <<q, p>>
    ELSE <<0, 0>>

\* The end of the match of \[MENTION_ALL\] that starts at i, or 0.
MentionAllMatchEnd(s, i) ==
    IF i + 2 <= Len(s) /\ s[i] = "[" /\ s[i + 1] = "MENTION_ALL" /\ s[i + 2] = "]"
    THEN i + 2
    ELSE 0

\* regexp.ReplaceAllString(s, ""): the leftmost non-overlapping matches removed.
RECURSIVE StripReactions(_, _)
StripReactions(s, i) ==
    IF i > Len(s) THEN <<>>
    ELSE LET e == ReactionMatchEnd(s, i)
         IN IF e # 0 THEN StripReactions(s, e + 1)
            ELSE <<s[i]>> \o StripReactions(s, i + 1)

RECURSIVE StripMentions(_, _)
StripMentions(s, i) ==
    IF i > Len(s) THEN <<>>
    ELSE LET m == MentionMatch(s, i)
         IN IF m[1] # 0 THEN StripMentions(s, m[1] + 1)
            ELSE <<s[i]>> \o StripMentions(s, i + 1)

RECURSIVE StripMentionAll(_, _)
StripMentionAll(s, i) ==
    IF i > Len(s) THEN <<>>
    ELSE LET e == MentionAllMatchEnd(s, i)
         IN IF e # 0 THEN StripMentionAll(s, e + 1)
            ELSE <<s[i]>> \o StripMentionAll(s, i + 1)

\* regexp.FindAllStringSubmatch: one Member per match, left to right.
RECURSIVE FindMentions(_, _)
FindMentions(s, i) ==
    IF i > Len(s) THEN <<>>
    ELSE LET m == MentionMatch(s, i)
         IN IF m[1] # 0
            THEN <<[UserID |-> SubSeq(s, i + 3, m[2] - 1),
                    Name |-> SubSeq(s, m[2] + 1, m[1] - 1)]>>
                 \o FindMentions(s, m[1] + 1)
            ELSE FindMentions(s, i + 1)

\* strings.TrimSpace.
RECURSIVE TrimSpace(_)
TrimSpace(s) ==
    IF s = <<>> THEN s
    ELSE IF Head(s) = " " THEN TrimSpace(Tail(s))
    ELSE IF s[Len(s)] = " " THEN TrimSpace(SubSeq(s, 1, Len(s) - 1))
    ELSE s

\* ConversationService.parseResponse.
parseResponse(response) ==
    LET t1 == StripReactions(response, 1)
        t2 == StripMentions(t1, 1)
        t3 == StripMentionAll(t2, 1)
    IN [text |-> TrimSpace(t3), mentions |-> FindMentions(t1, 1)]

\* strings.ToLower, on the tokens of the model.
ToLowerToken(t) ==
    CASE t = "BUG" -> "bug"
      [] t = "De" -> "de"
      [] OTHER -> t

ToLower(s) == [i \in 1..Len(s) |-> ToLowerToken(s[i])]

\* strings.Contains.
Contains(s, sub) ==
    \E i \in 1..(Len(s) - Len(sub) + 1) : SubSeq(s, i, i + Len(sub) - 1) = sub

----------------------------------------------------------------------------
\* The buffer store and triage.

\* bufferRepo.GetKeywords orders the rows by priority DESC, keyword ASC, and
\* bufferRepo.MatchKeyword returns the first row whose lowercased keyword is
\* a substring of the lowercased content: a matching row that no matching
\* row precedes.  KeywordBefore is that order on the rows of the model.
TokenRank(t) ==
    CASE t = "bug" -> 1
      [] t = "de" -> 2
      [] t = "hello" -> 3
      [] OTHER -> 4

RECURSIVE StrLess(_, _)
StrLess(a, b) ==
    IF b = <<>> THEN FALSE
    ELSE IF a = <<>> THEN TRUE
    ELSE IF TokenRank(Head(a)) # TokenRank(Head(b))
         THEN TokenRank(Head(a)) < TokenRank(Head(b))
    ELSE StrLess(Tail(a), Tail(b))

KeywordBefore_PriorityAsc(a, b) ==
    \/ a.priority < b.priority
    \/ a.priority = b.priority /\ StrLess(a.keyword, b.keyword)

KeywordBefore(a, b) ==
    \/ a.priority > b.priority
    \/ a.priority = b.priority /\ StrLess(a.keyword, b.keyword)

MatchKeyword(content) ==
    LET hits == {kw \in keywords : Contains(ToLower(content), ToLower(kw.keyword))}
    IN IF hits = {} THEN {}
       ELSE {CHOOSE kw \in hits : \A o \in hits \ {kw} : KeywordBefore(kw, o)}

ShouldProcessImmediately_AnyKeyword(chatID, content, mentionsBot) ==
    IF mentionsBot THEN <<TRUE, "mentioned">>
    ELSE IF chatID \in whitelist THEN <<TRUE, "whitelist">>
    ELSE IF MatchKeyword(content) # {}
         THEN <<TRUE, "keyword">>
    ELSE <<FALSE, "">>

ShouldProcessImmediately_FirstOnly(chatID, content, mentionsBot) ==
    IF mentionsBot THEN <<TRUE, "mentioned">>
    ELSE IF chatID \in whitelist /\ ~chatStates[chatID].exists
         THEN <<TRUE, "whitelist">>
    ELSE <<FALSE, "">>

\* The text of a string of the model: its tokens, one after the other.
RECURSIVE Join(_)
Join(s) == IF s = <<>> THEN "" ELSE Head(s) \o Join(Tail(s))

\* BufferUsecase.ShouldProcessImmediately: <<immediate, reason>>.
ShouldProcessImmediately(chatID, content, mentionsBot) ==
    IF mentionsBot THEN <<TRUE, "mentioned">>
    ELSE IF chatID \in whitelist THEN <<TRUE, "whitelist">>
    ELSE IF \E kw \in MatchKeyword(content) : kw.priority >= 2
         THEN LET kw == CHOOSE k \in MatchKeyword(content) : TRUE
              IN <<TRUE, "keyword:" \o Join(kw.keyword)>>
    ELSE <<FALSE, "">>

\* bufferRepo.AddMessage: INSERT OR IGNORE on the unique msg_id.  created_at
\* is the row's place in the order of arrival.
AddMessage(chatID, msgID, createdAt) ==
    IF \E r \in buffered : r.msg_id = msgID THEN buffered
    ELSE buffered \cup {[chat_id |-> chatID, msg_id |-> msgID,
                         created_at |-> createdAt, processed |-> FALSE]}

\* bufferRepo.GetAllUnprocessedMessages.
Unprocessed == {r \in buffered : ~r.processed}

\* bufferRepo.MarkProcessed, on the rows with these ids.
MarkProcessed(ids) ==
    {IF r.msg_id \in ids THEN [r EXCEPT !.processed = TRUE] ELSE r : r \in buffered}

\* BufferUsecase.GetMessagesForDigest: the unprocessed rows, grouped by chat.
GetMessagesForDigest ==
    [c \in {r.chat_id : r \in Unprocessed} |-> {r \in Unprocessed : r.chat_id = c}]

\* bufferRepo.CleanupOld.
CleanupOld(before) ==
    {r \in buffered : ~(r.created_at < before /\ r.processed)}

----------------------------------------------------------------------------
\* The state after construction: no chat state, no session, no buffered
\* message, an idle backend; the whitelist and the keywords are what earlier
\* runs left in the database, the classifier is configured or not.

ZeroChatState ==
    [exists |-> FALSE, ThreadID |-> "", TurnID |-> "", MsgID |-> "",
     Processing |-> FALSE, Buffer |-> <<>>]

IdlePM == [pc |-> "idle", req |-> 0, ThreadID |-> "", TurnID |-> ""]

NoSession ==
    [exists |-> FALSE, ThreadID |-> "", LastProcessedMsgID |-> "", LastMsgTime |-> 0,
     LastReplyAt |-> 0]

\* No pure function is being called.
NoProbe == [op |-> "none"]

\* The ThreadDecision of a request whose Trigger has not resolved the thread.
NoDecision ==
    [IsNew |-> FALSE, ThreadID |-> "", LastProcessedMsgID |-> "", LastMsgTime |-> 0,
     LastReplyAt |-> 0]

\* What a run of ResolveThread found: the session row, Session.IsFresh's
\* answer and the resume probe's (history, beside the decision).
NoResolve == [ran |-> FALSE, session |-> NoSession, fresh |-> FALSE, probeOK |-> FALSE]

NoCall ==
    [called |-> FALSE, caller |-> "", chat |-> "", msgID |-> "", triage |-> "",
     gate |-> "", busyBefore |-> FALSE, result |-> ""]

InitBase ==
    /\ chatStates = [c \in Chats |-> ZeroChatState]
    /\ pm = [c \in Chats |-> IdlePM]
    /\ sessions = [c \in Chats |-> NoSession]
    /\ turns = <<>>
    /\ nextThread = 0
    /\ events = <<>>
    /\ errorsSent = 0
    /\ seenMsgs = <<>>
    /\ nextMsg = 0
    /\ buffered = {}
    /\ digestPending = <<>>
    /\ digestRuns = 0
    /\ reqs = <<>>
    /\ replies = <<>>
    /\ sentTexts = [c \in Chats |-> [fail |-> 0, busy |-> 0]]
    /\ last = NoCall
    /\ now = 0

InitProgram ==
    /\ InitBase
    /\ whitelist \in SUBSET WhitelistChats
    /\ keywords = KeywordRows
    /\ filterEnabled \in BOOLEAN

Init == InitProgram /\ probe = NoProbe

----------------------------------------------------------------------------
\* ConversationService.HandleMessage.

\* What HandleMessage does with a request; should is the classifier's answer
\* when it is asked.
HandleMessageResult(req, should) ==
    IF req.ChatType = "group" /\ ~req.MentionsBot /\ ~(filterEnabled /\ should)
    THEN "skipped"
    ELSE IF chatStates[req.ChatID].Processing THEN "busy"
    ELSE "accepted"

\* What the classifier told HandleMessage: it is asked about a group message
\* that does not mention the bot, when there is a classifier.
GateAnswer(req, should) ==
    IF req.ChatType = "group" /\ ~req.MentionsBot /\ filterEnabled
    THEN IF should THEN "yes" ELSE "no"
    ELSE "none"

HandleMessage(req, should, caller, triage) ==
    LET c == req.ChatID
        res == HandleMessageResult(req, should)
    IN /\ last' = [called |-> TRUE, caller |-> caller, chat |-> c,
                   msgID |-> req.MsgID, triage |-> triage,
                   gate |-> GateAnswer(req, should),
                   busyBefore |-> chatStates[c].Processing, result |-> res]
       /\ IF res = "accepted"
          THEN /\ chatStates' = [chatStates EXCEPT ![c].exists = TRUE,
                                                   ![c].Processing = TRUE,
                                                   ![c].MsgID = req.MsgID,
                                                   ![c].Buffer = <<>>]
               /\ reqs' = Append(reqs, [chat |-> c, msgID |-> req.MsgID,
                                        caller |-> caller, st |-> "setup",
                                        createTime |-> req.MsgCreateTime,
                                        dec |-> NoDecision, res |-> NoResolve])
               /\ pm' = [pm EXCEPT ![c] = [IdlePM EXCEPT !.pc = "trigger",
                                                         !.req = Len(reqs) + 1]]
          ELSE /\ chatStates' = [chatStates EXCEPT ![c].exists = TRUE]
               /\ UNCHANGED <<reqs, pm>>

----------------------------------------------------------------------------
\* FeishuServer.handleMessage: one inbound event.

\* FeishuServer.isMessageSeen.
isMessageSeen(msgID) == msgID \in DOMAIN seenMsgs

\* markMessageSeen sweeping the records that are exactly as old as the window
\* too.  C12 does not hold of it.
markMessageSeen_SweepAtWindow(msgID) ==
    LET marked == [m \in DOMAIN seenMsgs \cup {msgID} |->
                      IF m = msgID THEN now ELSE seenMsgs[m]]
        cutoff == now - DedupWindow
    IN [m \in {k \in DOMAIN marked : ~(marked[k] <= cutoff)} |-> marked[m]]

\* FeishuServer.markMessageSeen: record the message at the clock's reading and
\* sweep the records older than the window.
markMessageSeen(msgID) ==
    LET marked == [m \in DOMAIN seenMsgs \cup {msgID} |->
                      IF m = msgID THEN now ELSE seenMsgs[m]]
        cutoff == now - DedupWindow
    IN [m \in {k \in DOMAIN marked : ~(marked[k] < cutoff)} |-> marked[m]]

handleMessage(msg, should) ==
    IF isMessageSeen(msg.MsgID)
    THEN /\ last' = NoCall
         /\ UNCHANGED <<chatStates, pm, reqs, seenMsgs, buffered, sentTexts>>
    ELSE LET chatType == ChatTypeOf(msg.ChatID)
             triage == ShouldProcessImmediately(msg.ChatID, msg.Content, msg.MentionsBot)
         IN /\ seenMsgs' = markMessageSeen(msg.MsgID)
            /\ IF chatType = "group" /\ ~triage[1]
               THEN /\ buffered' = AddMessage(msg.ChatID, msg.MsgID, msg.CreateTime)
                    /\ last' = NoCall
                    /\ UNCHANGED <<chatStates, pm, reqs, sentTexts>>
               ELSE /\ HandleMessage([ChatID |-> msg.ChatID, MsgID |-> msg.MsgID,
                                      ChatType |-> chatType,
                                      MentionsBot |-> msg.MentionsBot,
                                      MsgCreateTime |-> msg.MsgCreateTime],
                                     should, "ingress",
                                     IF chatType = "group" THEN triage[2] ELSE "p2p")
                    /\ sentTexts' =
                         IF last'.result = "busy"
                         THEN [sentTexts EXCEPT ![msg.ChatID].busy = @ + 1]
                         ELSE sentTexts
                    /\ UNCHANGED buffered

\* The classifier's possible answers to HandleMessage for a message: it is
\* asked only about a group message that does not mention the bot, and only
\* when it is configured.
FilterAnswers(chatType, mentionsBot) ==
    IF chatType = "group" /\ ~mentionsBot /\ filterEnabled THEN BOOLEAN ELSE {TRUE}

\* The platform delivers a new message.
Deliver ==
    \E c \in Chats, content \in Contents, mentionsBot \in BOOLEAN :
      \E should \in FilterAnswers(ChatTypeOf(c), mentionsBot) :
        /\ nextMsg < MaxMsgs
        /\ nextMsg' = nextMsg + 1
        /\ handleMessage([ChatID |-> c, MsgID |-> MsgName(nextMsg + 1),
                          Content |-> content, MentionsBot |-> mentionsBot,
                          CreateTime |-> nextMsg + 1,
                          MsgCreateTime |-> CreateTimeOf(nextMsg + 1)], should)
        /\ UNCHANGED <<now, probe, sessions, turns, nextThread, events, errorsSent, whitelist,
                       keywords, filterEnabled, digestPending, digestRuns, replies>>

\* The platform delivers an earlier message again.
Redeliver ==
    \E n \in 1..nextMsg, c \in Chats :
        /\ handleMessage([ChatID |-> c, MsgID |-> MsgName(n), Content |-> <<>>,
                          MentionsBot |-> FALSE, CreateTime |-> nextMsg,
                          MsgCreateTime |-> CreateTimeOf(n)], TRUE)
        /\ UNCHANGED nextMsg
        /\ UNCHANGED <<now, probe, sessions, turns, nextThread, events, errorsSent, whitelist,
                       keywords, filterEnabled, digestPending, digestRuns, replies>>

----------------------------------------------------------------------------
\* ConversationService.processMessage, the goroutine HandleMessage spawns.

\* The steps at which ConversationUsecase.Trigger can return an error:
\*   get      sessionRepo.GetByChat fails
\*   create   codexRepo.CreateThread fails
\*   save     sessionRepo.Save fails
\*   build    ContextBuilderUsecase.BuildConversation fails
\*   turn     codexRepo.StartTurn fails before the backend starts the turn
\*   timeout  the backend starts the turn and sendRequest gives up on the
\*            response (its 5 minute timer, or the client's context)
FailSteps == {"get", "create", "save", "build", "turn", "timeout"}

\* SessionUsecase.ResolveThread creates a thread when the chat has no session,
\* the session is not fresh, or the resume probe fails.
NeedsNewThread_NoProbe(c, fresh, probeOK) ==
    ~sessions[c].exists \/ ~fresh

NeedsNewThread(c, fresh, probeOK) ==
    ~sessions[c].exists \/ ~fresh \/ ~probeOK

\* The answers of Session.IsFresh and of the resume probe that decide a run
\* of ResolveThread: neither is asked when the chat has no session, and the
\* probe is not made for a stale session.
ResolveInputs(c) ==
    IF ~sessions[c].exists THEN {<<TRUE, TRUE>>}
    ELSE {<<FALSE, TRUE>>, <<TRUE, FALSE>>, <<TRUE, TRUE>>}

\* The session row after SessionUsecase.ResolveThread ran up to failAt
\* ("none": to its end): the probe's failure deletes the row, createNewThread
\* saves a new one.
SessionAfterResolve(c, fresh, probeOK, failAt) ==
    IF failAt = "get" THEN sessions[c]
    ELSE IF ~NeedsNewThread(c, fresh, probeOK) THEN sessions[c]
    ELSE IF failAt \in {"create", "save"}
         THEN IF sessions[c].exists /\ fresh /\ ~probeOK THEN NoSession
              ELSE sessions[c]
    ELSE [NoSession EXCEPT !.exists = TRUE, !.ThreadID = ThreadName(nextThread + 1)]

\* The backend's thread counter after the same run: thread/start was answered
\* unless the run failed before it or at it.
ThreadsAfterResolve(c, fresh, probeOK, failAt) ==
    IF failAt \notin {"get", "create"} /\ NeedsNewThread(c, fresh, probeOK)
    THEN nextThread + 1
    ELSE nextThread

\* The ThreadDecision SessionUsecase.ResolveThread returns: the stored thread
\* and cursors, or the new thread createNewThread made.
ThreadDecision(c, fresh, probeOK) ==
    IF NeedsNewThread(c, fresh, probeOK)
    THEN [NoDecision EXCEPT !.IsNew = TRUE, !.ThreadID = ThreadName(nextThread + 1)]
    ELSE [IsNew |-> FALSE, ThreadID |-> sessions[c].ThreadID,
          LastProcessedMsgID |-> sessions[c].LastProcessedMsgID,
          LastMsgTime |-> sessions[c].LastMsgTime,
          LastReplyAt |-> sessions[c].LastReplyAt]

\* time.Time.Unix of time.UnixMilli(ms): whole seconds.
UnixOfMilli(ms) == ms \div 1000

\* time.Now().Unix().
UnixNow == now * 60

\* The second Trigger stores as last_msg_time: the platform's create time of
\* the request, or the clock's reading when the request carries none.
MsgTimeUnix(createTime) ==
    IF createTime > 0 THEN UnixOfMilli(createTime) ELSE UnixNow

\* sessionRepo.UpdateLastProcessedMsg: an UPDATE of the chat's row.
UpdateLastProcessedMsg(s, msgID, msgTimeUnix) ==
    IF s.exists
    THEN [s EXCEPT !.LastProcessedMsgID = msgID, !.LastMsgTime = msgTimeUnix]
    ELSE s

PromptFormat_Resumed(decision) == "resumed"

\* The prompt Trigger formats: FormatForNewThread when the decision is new.
PromptFormat(decision) == IF decision.IsNew THEN "new" ELSE "resumed"

\* A turn the backend starts on turn/start.
NewTurn(c, thread) ==
    [thread |-> thread, chat |-> c, req |-> pm[c].req,
     msgID |-> reqs[pm[c].req].msgID, sent |-> 0, status |-> "running",
     handed |-> <<>>, format |-> ""]

\* processMessage without its deferred function: the failure text is sent but
\* Processing stays set.  C5 does not hold of it.
processMessageFail_NoDefer(c, fresh, probeOK, failAt) ==
    /\ pm[c].pc = "trigger"
    /\ failAt \in {"create", "save"} => NeedsNewThread(c, fresh, probeOK)
    /\ sessions' = [sessions EXCEPT ![c] = SessionAfterResolve(c, fresh, probeOK, failAt)]
    /\ nextThread' = ThreadsAfterResolve(c, fresh, probeOK, failAt)
    /\ turns' = IF failAt = "timeout"
                THEN Append(turns, [NewTurn(c, sessions'[c].ThreadID) EXCEPT
                                      !.format = PromptFormat(ThreadDecision(c, fresh, probeOK))])
                ELSE turns
    /\ sentTexts' = [sentTexts EXCEPT ![c].fail = @ + 1]
    /\ reqs' = [reqs EXCEPT ![pm[c].req].st = "failed"]
    /\ pm' = [pm EXCEPT ![c] = IdlePM]
    /\ UNCHANGED chatStates

\* Trigger returns an error: processMessage sends the failure text and its
\* deferred function clears Processing.
processMessageFail(c, fresh, probeOK, failAt) ==
    /\ pm[c].pc = "trigger"
    /\ failAt \in {"create", "save"} => NeedsNewThread(c, fresh, probeOK)
    /\ sessions' = [sessions EXCEPT ![c] = SessionAfterResolve(c, fresh, probeOK, failAt)]
    /\ nextThread' = ThreadsAfterResolve(c, fresh, probeOK, failAt)
    /\ turns' = IF failAt = "timeout"
                THEN Append(turns, [NewTurn(c, sessions'[c].ThreadID) EXCEPT
                                      !.format = PromptFormat(ThreadDecision(c, fresh, probeOK))])
                ELSE turns
    /\ sentTexts' = [sentTexts EXCEPT ![c].fail = @ + 1]
    /\ chatStates' = [chatStates EXCEPT ![c].Processing = FALSE]
    /\ reqs' = [reqs EXCEPT ![pm[c].req].st = "failed"]
    /\ pm' = [pm EXCEPT ![c] = IdlePM]

\* Trigger returns a response: the backend has started the turn and the
\* session's resumption anchor is the request.
processMessageTrigger(c, fresh, probeOK) ==
    /\ pm[c].pc = "trigger"
    /\ LET s == SessionAfterResolve(c, fresh, probeOK, "none")
           decision == ThreadDecision(c, fresh, probeOK)
           req == reqs[pm[c].req]
       IN /\ sessions' = [sessions EXCEPT ![c] =
                             UpdateLastProcessedMsg(s, req.msgID,
                                                    MsgTimeUnix(req.createTime))]
          /\ turns' = Append(turns, [NewTurn(c, decision.ThreadID) EXCEPT
                                        !.format = PromptFormat(decision)])
          /\ pm' = [pm EXCEPT ![c].pc = "record",
                              ![c].ThreadID = decision.ThreadID,
                              ![c].TurnID = TurnName(Len(turns) + 1)]
          /\ reqs' = [reqs EXCEPT ![pm[c].req].st = "started",
                                  ![pm[c].req].dec = decision,
                                  ![pm[c].req].res =
                                      [ran |-> TRUE, session |-> sessions[c],
                                       fresh |-> fresh, probeOK |-> probeOK]]
    /\ nextThread' = ThreadsAfterResolve(c, fresh, probeOK, "none")
    /\ UNCHANGED <<chatStates, sentTexts>>

\* processMessage records the response's thread and turn in the chat state.
processMessageRecord(c) ==
    /\ pm[c].pc = "record"
    /\ chatStates' = [chatStates EXCEPT ![c].ThreadID = pm[c].ThreadID,
                                        ![c].TurnID = pm[c].TurnID]
    /\ pm' = [pm EXCEPT ![c].pc = "defer"]
    /\ UNCHANGED <<sessions, turns, nextThread, sentTexts, reqs>>

\* processMessage's deferred function.
\* A processMessage whose deferred function leaves Processing as it is.
processMessageDefer_KeepsProcessing(c) ==
    /\ pm[c].pc = "defer"
    /\ pm' = [pm EXCEPT ![c] = IdlePM]
    /\ UNCHANGED <<chatStates, sessions, turns, nextThread, sentTexts, reqs>>

processMessageDefer(c) ==
    /\ pm[c].pc = "defer"
    /\ chatStates' = [chatStates EXCEPT ![c].Processing = FALSE]
    /\ pm' = [pm EXCEPT ![c] = IdlePM]
    /\ UNCHANGED <<sessions, turns, nextThread, sentTexts, reqs>>

processMessage ==
    /\ \E c \in Chats :
        \/ \E in \in ResolveInputs(c), failAt \in FailSteps :
              processMessageFail(c, in[1], in[2], failAt)
        \/ \E in \in ResolveInputs(c) :
              processMessageTrigger(c, in[1], in[2])
        \/ processMessageRecord(c)
        \/ processMessageDefer(c)
    /\ last' = NoCall
    /\ UNCHANGED <<now, probe,
                   events, errorsSent, seenMsgs, nextMsg, buffered, whitelist,
                   keywords, filterEnabled, digestPending, digestRuns, replies>>

----------------------------------------------------------------------------
\* The backend sub-process.

\* item/agentMessage/delta: the next delta of a running turn.
BackendDelta ==
    \E t \in DOMAIN turns :
        /\ turns[t].status = "running"
        /\ turns[t].sent < MaxDeltas
        /\ turns' = [turns EXCEPT ![t].sent = @ + 1]
        /\ events' = Append(events, [type |-> "AgentDelta", thread |-> turns[t].thread,
                                     turn |-> t, delta |-> Payload(t, turns[t].sent + 1)])
        /\ UNCHANGED errorsSent

\* turn/completed.
BackendTurnCompleted ==
    \E t \in DOMAIN turns :
        /\ turns[t].status = "running"
        /\ turns' = [turns EXCEPT ![t].status = "completed"]
        /\ events' = Append(events, [type |-> "TurnComplete", thread |-> turns[t].thread,
                                     turn |-> t, delta |-> <<>>])
        /\ UNCHANGED errorsSent

\* A notification whose method contains "error": codexRepo.convertEvent makes
\* it an Error event, which names no thread.
BackendError ==
    /\ errorsSent < MaxErrors
    /\ errorsSent' = errorsSent + 1
    /\ events' = Append(events, [type |-> "Error", thread |-> "", turn |-> 0,
                                 delta |-> <<>>])
    /\ UNCHANGED turns

Backend ==
    /\ BackendDelta \/ BackendTurnCompleted \/ BackendError
    /\ last' = NoCall
    /\ UNCHANGED <<now, probe,
                   chatStates, pm, sessions, nextThread, seenMsgs, nextMsg, buffered,
                   whitelist, keywords, filterEnabled, digestPending, digestRuns,
                   reqs, replies, sentTexts>>

----------------------------------------------------------------------------
\* ConversationService.HandleCodexEvent, called by the event loop for each
\* event in turn.

\* ConversationService.findChatByThread returns a chat whose state holds the
\* thread; these are the chats it can return.
findChatByThread(threadID) ==
    {c \in Chats : chatStates[c].exists /\ chatStates[c].ThreadID = threadID}

handleAgentDelta(threadID, delta) ==
    /\ IF findChatByThread(threadID) = {}
       THEN UNCHANGED chatStates
       ELSE \E c \in findChatByThread(threadID) :
               chatStates' = [chatStates EXCEPT ![c].Buffer = @ \o delta]
    /\ UNCHANGED <<sessions, turns, replies>>

\* sessionRepo.MarkReplied: an UPDATE of the chat's row, if there is one.
MarkReplied(c, at) ==
    IF sessions[c].exists THEN [sessions EXCEPT ![c].LastReplyAt = at] ELSE sessions

\* A handleTurnComplete without the return on an empty response.
handleTurnComplete_ReplyEmpty(threadID, t) ==
    IF findChatByThread(threadID) = {}
    THEN /\ turns' = [turns EXCEPT ![t].status = "ended"]
         /\ UNCHANGED <<chatStates, sessions, replies>>
    ELSE \E c \in findChatByThread(threadID) :
            LET response == chatStates[c].Buffer
                msgID == chatStates[c].MsgID
                parsed == parseResponse(response)
            IN /\ replies' = Append(replies,
                                    [chat |-> c, msgID |-> msgID,
                                     text |-> parsed.text,
                                     mentions |-> parsed.mentions, turn |-> t])
               /\ sessions' = MarkReplied(c, Len(replies) + 1)
               /\ turns' = [turns EXCEPT ![t].status = "ended",
                                         ![t].handed = response]
               /\ UNCHANGED chatStates

handleTurnComplete(threadID, t) ==
    IF findChatByThread(threadID) = {}
    THEN /\ turns' = [turns EXCEPT ![t].status = "ended"]
         /\ UNCHANGED <<chatStates, sessions, replies>>
    ELSE \E c \in findChatByThread(threadID) :
            LET response == chatStates[c].Buffer
                msgID == chatStates[c].MsgID
                parsed == parseResponse(response)
            IN IF response = <<>>
               THEN /\ turns' = [turns EXCEPT ![t].status = "ended"]
                    /\ UNCHANGED <<chatStates, sessions, replies>>
               ELSE /\ replies' = Append(replies,
                                         [chat |-> c, msgID |-> msgID,
                                          text |-> parsed.text,
                                          mentions |-> parsed.mentions, turn |-> t])
                    /\ sessions' = MarkReplied(c, Len(replies) + 1)
                    /\ turns' = [turns EXCEPT ![t].status = "ended",
                                              ![t].handed = response]
                    /\ UNCHANGED chatStates

HandleCodexEvent ==
    /\ events # <<>>
    /\ events' = Tail(events)
    /\ LET event == Head(events)
       IN CASE event.type = "AgentDelta" -> handleAgentDelta(event.thread, event.delta)
            [] event.type = "TurnComplete" -> handleTurnComplete(event.thread, event.turn)
            [] event.type = "Error" -> UNCHANGED <<chatStates, sessions, turns, replies>>
    /\ last' = NoCall
    /\ UNCHANGED <<now, probe,
                   pm, nextThread, errorsSent, seenMsgs, nextMsg, buffered, whitelist,
                   keywords, filterEnabled, digestPending, digestRuns, reqs, sentTexts>>

----------------------------------------------------------------------------
\* DigestScheduler: the digest loop and the cleanup loop.

\* DigestScheduler.processDigests up to its loop: a run that finds messages.
\* The loop goroutine starts a run only after the run before it returned.
processDigests ==
    /\ DOMAIN digestPending = {}
    /\ Unprocessed # {}
    /\ digestRuns < MaxDigestRuns
    /\ digestPending' = GetMessagesForDigest
    /\ digestRuns' = digestRuns + 1
    /\ last' = NoCall
    /\ UNCHANGED <<now, probe,
                   chatStates, pm, sessions, turns, nextThread, events, errorsSent,
                   seenMsgs, nextMsg, buffered, whitelist, keywords, filterEnabled,
                   reqs, replies, sentTexts>>

\* DigestScheduler.markMessagesProcessed.
markMessagesProcessed(messages) == MarkProcessed({r.msg_id : r \in messages})

\* History of a processWithCodex call that the classifier ended before
\* HandleMessage: no call, and the scheduler's classifier said no.
SchedulerSkip(chatID) ==
    [NoCall EXCEPT !.caller = "digest", !.chat = chatID, !.gate = "no"]

\* processWithCodex marking the messages only when HandleMessage accepted
\* the digest request.  C25 does not hold of it.
processWithCodex_MarkOnAccept(chatID, messages, should1, should2) ==
    IF filterEnabled /\ ~should1
    THEN /\ buffered' = markMessagesProcessed(messages)
         /\ last' = SchedulerSkip(chatID)
         /\ UNCHANGED <<chatStates, pm, reqs>>
    ELSE /\ HandleMessage([ChatID |-> chatID, MsgID |-> DigestMsgID(digestRuns),
                           ChatType |-> "group", MentionsBot |-> FALSE,
                           MsgCreateTime |-> 0],
                          should2, "digest", "digest")
         /\ buffered' = IF last'.result = "accepted"
                        THEN markMessagesProcessed(messages) ELSE buffered

\* processWithCodex without the marking on the classifier's no: the messages
\* stay unprocessed.  C10 does not hold of it.
processWithCodex_NoMarkOnSkip(chatID, messages, should1, should2) ==
    IF filterEnabled /\ ~should1
    THEN /\ last' = SchedulerSkip(chatID)
         /\ UNCHANGED <<chatStates, pm, reqs, buffered>>
    ELSE /\ HandleMessage([ChatID |-> chatID, MsgID |-> DigestMsgID(digestRuns),
                           ChatType |-> "group", MentionsBot |-> FALSE,
                           MsgCreateTime |-> 0],
                          should2, "digest", "digest")
         /\ buffered' = markMessagesProcessed(messages)

\* DigestScheduler.processWithCodex; should1 and should2 are the classifier's
\* answers to the scheduler and to HandleMessage.
processWithCodex(chatID, messages, should1, should2) ==
    IF filterEnabled /\ ~should1
    THEN /\ buffered' = markMessagesProcessed(messages)
         /\ last' = SchedulerSkip(chatID)
         /\ UNCHANGED <<chatStates, pm, reqs>>
    ELSE /\ HandleMessage([ChatID |-> chatID, MsgID |-> DigestMsgID(digestRuns),
                           ChatType |-> "group", MentionsBot |-> FALSE,
                           MsgCreateTime |-> 0],
                          should2, "digest", "digest")
         /\ buffered' = markMessagesProcessed(messages)

\* One round of the loop of processDigests.
DigestChat ==
    \E c \in DOMAIN digestPending, should1 \in FilterAnswers("group", FALSE),
       should2 \in FilterAnswers("group", FALSE) :
        /\ processWithCodex(c, digestPending[c], should1, should2)
        /\ digestPending' = [d \in DOMAIN digestPending \ {c} |-> digestPending[d]]
        /\ UNCHANGED <<now, probe,
                   sessions, turns, nextThread, events, errorsSent, seenMsgs,
                       nextMsg, whitelist, keywords, filterEnabled, digestRuns,
                       replies, sentTexts>>

\* DigestScheduler.cleanup; before is the cutoff BufferUsecase.Cleanup computes
\* from the clock.
cleanup ==
    \E before \in 0..(MaxMsgs + 1) :
        /\ CleanupOld(before) # buffered
        /\ buffered' = CleanupOld(before)
        /\ last' = NoCall
        /\ UNCHANGED <<now, probe,
                   chatStates, pm, sessions, turns, nextThread, events,
                       errorsSent, seenMsgs, nextMsg, whitelist, keywords,
                       filterEnabled, digestPending, digestRuns, reqs, replies,
                       sentTexts>>

----------------------------------------------------------------------------

Next ==
    \/ Deliver
    \/ Redeliver
    \/ processMessage
    \/ Backend
    \/ HandleCodexEvent
    \/ processDigests
    \/ DigestChat
    \/ cleanup

Spec == Init /\ [][Next]_vars

----------------------------------------------------------------------------
\* The dedup cache over time: the platform delivers and re-delivers a fixed
\* set of messages while the clock advances.  The requests HandleMessage
\* accepts stay in set-up.

\* The n-th message of the platform: odd ones in the group chat, even ones in
\* the private chat.
InboundMsg(n) ==
    [ChatID |-> IF n % 2 = 1 THEN "g1" ELSE "p1", MsgID |-> MsgName(n),
     Content |-> <<"hello">>, MentionsBot |-> FALSE, CreateTime |-> n,
     MsgCreateTime |-> CreateTimeOf(n)]

\* probe in this specification: when each msg_id was last inserted into the
\* cache, and the delivery of the last step.
DedupInit ==
    /\ InitProgram
    /\ probe = [op |-> "dedup", insertedAt |-> <<>>, arrived |-> "", dropped |-> FALSE]

\* The platform delivers message n, for the first time or again.
Arrive ==
    \E n \in 1..MaxMsgs :
      \E should \in FilterAnswers(ChatTypeOf(InboundMsg(n).ChatID), FALSE) :
        LET id == MsgName(n)
        IN /\ handleMessage(InboundMsg(n), should)
           /\ probe' = [probe EXCEPT
                 !.insertedAt = IF isMessageSeen(id) THEN @
                                ELSE [m \in DOMAIN @ \cup {id} |->
                                         IF m = id THEN now ELSE @[m]],
                 !.arrived = id,
                 !.dropped = isMessageSeen(id)]
           /\ UNCHANGED <<now, nextMsg, sessions, turns, nextThread, events,
                          errorsSent, whitelist, keywords, filterEnabled,
                          digestPending, digestRuns, replies>>

\* A minute passes.
Tick ==
    /\ now < MaxNow
    /\ now' = now + 1
    /\ probe' = [probe EXCEPT !.arrived = ""]
    /\ last' = NoCall
    /\ UNCHANGED <<chatStates, pm, sessions, turns, nextThread, events, errorsSent,
                   seenMsgs, nextMsg, buffered, whitelist, keywords, filterEnabled,
                   digestPending, digestRuns, reqs, replies, sentTexts>>

DedupNext == Arrive \/ Tick

DedupSpec == DedupInit /\ [][DedupNext]_vars

----------------------------------------------------------------------------
\* What handleTurnComplete does with a buffered backend output: the reactions
\* it adds, the text and mentions it hands to the reply callback, and the
\* send FeishuServer.sendReply makes.

\* The pieces of the outputs: whole directives, text, and halves of
\* directives that another piece can separate.
Fragments ==
    {<<"[", "REACTION", ":", "THUMBSUP", "]">>,
     <<"[", "MENTION", ":", "u1", ":", "Al", "]">>,
     <<"[", "MENTION_ALL", "]">>,
     <<"hi">>, <<" ">>,
     <<"[", "MENTION">>, <<":", "u1", ":", "Al", "]">>,
     <<"[", "REACTION">>, <<":", "THUMBSUP", "]">>}

\* The backend outputs: up to MaxPieces pieces in a row.
Responses ==
    {Flatten(ps) : ps \in UNION {[1..k -> Fragments] : k \in 0..MaxPieces}}

\* FeishuServer.sendReply: the messageRepo call it makes.
sendReply(text, mentions) ==
    IF Len(mentions) > 0 THEN "SendTextWithMentions" ELSE "SendText"

\* handleTurnComplete's calls for a non-empty buffer: AddReaction, then the
\* reply callback, which is sendReply.
ReplyCalls(msgID, response) ==
    LET parsed == parseResponse(response)
    IN [reactions |-> <<[msgID |-> msgID, type |-> <<"DONE">>]>>,
        replyTo |-> msgID, text |-> parsed.text, mentions |-> parsed.mentions,
        send |-> sendReply(parsed.text, parsed.mentions)]

ReplyInit ==
    /\ InitProgram
    /\ whitelist = {} /\ filterEnabled = FALSE
    /\ probe \in {[op |-> "reply", stage |-> "in", response |-> r,
                   calls |-> ReplyCalls("", <<>>)] : r \in Responses}

\* TurnComplete arrives for the turn that message m1 started.
ReplyStep ==
    /\ probe.op = "reply" /\ probe.stage = "in"
    /\ probe.response # <<>>
    /\ probe' = [probe EXCEPT !.stage = "out",
                              !.calls = ReplyCalls(MsgName(1), probe.response)]
    /\ UNCHANGED <<chatStates, pm, sessions, turns, nextThread, events, errorsSent,
                   seenMsgs, nextMsg, buffered, whitelist, keywords, filterEnabled,
                   digestPending, digestRuns, reqs, replies, sentTexts, last, now>>

ReplySpec == ReplyInit /\ [][ReplyStep]_vars

----------------------------------------------------------------------------
\* Session.IsFresh.  Times are whole hours since the start of day 0; every
\* comparison of the code is between instants, so the unit does not matter.

\* time.Date(now.Year(), now.Month(), now.Day(), cfg.ResetHour, 0, 0, 0, loc).
TodayReset(clock, resetHour) == (clock \div HoursPerDay) * HoursPerDay + resetHour

IsFresh(UpdatedAt, cfg, clock) ==
    IF cfg.IdleTimeout > 0 /\ clock - UpdatedAt > cfg.IdleTimeout THEN FALSE
    ELSE IF cfg.ResetHour >= 0 /\ cfg.ResetHour < 24
    THEN LET resetTime == TodayReset(clock, cfg.ResetHour)
         IN IF clock > resetTime /\ UpdatedAt < resetTime THEN FALSE
            ELSE IF clock < resetTime /\ UpdatedAt < resetTime - HoursPerDay
            THEN FALSE
            ELSE TRUE
    ELSE TRUE

\* SessionConfig values: both checks disabled, enabled, and at their edges.
SessionConfigs ==
    [IdleTimeout : {0, 1, 30}, ResetHour : {-1, 0, 4, 23, 24}]

\* The clock's readings: the hours of the last of MaxDays days.
Clocks == ((MaxDays - 1) * HoursPerDay)..(MaxDays * HoursPerDay - 1)

FreshInit ==
    /\ InitProgram
    /\ whitelist = {} /\ filterEnabled = FALSE
    /\ probe \in {[op |-> "fresh", stage |-> "in", clock |-> n, UpdatedAt |-> u,
                   cfg |-> cfg, result |-> FALSE] :
                      n \in Clocks, u \in 0..(MaxDays * HoursPerDay - 1),
                      cfg \in SessionConfigs}
    /\ probe.UpdatedAt <= probe.clock

\* ResolveThread asks a stored session whether it is fresh.
FreshStep ==
    /\ probe.op = "fresh" /\ probe.stage = "in"
    /\ probe' = [probe EXCEPT !.stage = "out",
                              !.result = IsFresh(probe.UpdatedAt, probe.cfg, probe.clock)]
    /\ UNCHANGED <<chatStates, pm, sessions, turns, nextThread, events, errorsSent,
                   seenMsgs, nextMsg, buffered, whitelist, keywords, filterEnabled,
                   digestPending, digestRuns, reqs, replies, sentTexts, last, now>>

FreshSpec == FreshInit /\ [][FreshStep]_vars

----------------------------------------------------------------------------
\* The history a prompt shows.  A message is its ID and its create time; a
\* conversation is the fetched History and the Current message.

HistoryMessages == [ID : {MsgName(n) : n \in 1..MaxHistory}, CreateTime : 1..MaxTime]

\* The platform's histories: up to MaxHistory messages, no ID twice.
Histories ==
    UNION {{h \in [1..k -> HistoryMessages] :
               \A i, j \in 1..k : h[i].ID = h[j].ID => i = j} : k \in 0..MaxHistory}

\* The message a turn is triggered by: one of the history or a later one.
CurrentMessages ==
    {[ID |-> MsgName(n), CreateTime |-> MaxTime] : n \in 1..(MaxHistory + 1)}

Conversations == [History : Histories, Current : CurrentMessages]

\* Message.IsAfter.
IsAfter(m, t) == m.CreateTime > t

HistoryExcludingCurrent(conv) ==
    IF Len(conv.History) = 0 THEN conv.History
    ELSE SelectSeq(conv.History, LAMBDA m : m.ID # conv.Current.ID)

HistorySinceExcludingCurrent(conv, t) ==
    SelectSeq(conv.History, LAMBDA m : IsAfter(m, t) /\ m.ID # conv.Current.ID)

\* The index of the first message of History with the ID, from i on; 0 when
\* there is none (the code's -1).
RECURSIVE AnchorIdx(_, _, _)
AnchorIdx(History, msgID, i) ==
    IF i > Len(History) THEN 0
    ELSE IF History[i].ID = msgID THEN i
    ELSE AnchorIdx(History, msgID, i + 1)

HistoryAfterMsgID_FromAnchor(conv, msgID, fallbackTime) ==
    IF msgID = "" THEN HistorySinceExcludingCurrent(conv, fallbackTime)
    ELSE LET anchorIdx == AnchorIdx(conv.History, msgID, 1)
         IN IF anchorIdx = 0 THEN HistorySinceExcludingCurrent(conv, fallbackTime)
            ELSE SelectSeq(SubSeq(conv.History, anchorIdx, Len(conv.History)),
                           LAMBDA m : m.ID # conv.Current.ID)

HistoryAfterMsgID(conv, msgID, fallbackTime) ==
    IF msgID = "" THEN HistorySinceExcludingCurrent(conv, fallbackTime)
    ELSE LET anchorIdx == AnchorIdx(conv.History, msgID, 1)
         IN IF anchorIdx = 0 THEN HistorySinceExcludingCurrent(conv, fallbackTime)
            ELSE SelectSeq(SubSeq(conv.History, anchorIdx + 1, Len(conv.History)),
                           LAMBDA m : m.ID # conv.Current.ID)

\* A prompt is the sequence of its parts.
HistoryPart(messages) == [part |-> "history", messages |-> messages]
CurrentPart(m) == [part |-> "current", messages |-> <<m>>]

FormatForResumedThread(conv, lastProcessedMsgID, lastMsgTime) ==
    LET recentHistory == HistoryAfterMsgID(conv, lastProcessedMsgID, lastMsgTime)
    IN (IF Len(recentHistory) > 0 THEN <<HistoryPart(recentHistory)>> ELSE <<>>)
           \o <<CurrentPart(conv.Current)>>

\* The anchors a resumed decision carries: no ID, the ID of a message that
\* may be in the history, and a time.
ResumeInit ==
    /\ InitProgram
    /\ whitelist = {} /\ filterEnabled = FALSE
    /\ probe \in {[op |-> "resume", stage |-> "in", conv |-> conv,
                   LastProcessedMsgID |-> id, LastMsgTime |-> t, prompt |-> <<>>] :
                      conv \in Conversations,
                      id \in {""} \cup {MsgName(n) : n \in 1..(MaxHistory + 1)},
                      t \in 0..MaxTime}

\* Trigger formats the prompt of a turn on a resumed thread.
ResumeStep ==
    /\ probe.op = "resume" /\ probe.stage = "in"
    /\ probe' = [probe EXCEPT !.stage = "out",
                              !.prompt = FormatForResumedThread(probe.conv,
                                             probe.LastProcessedMsgID, probe.LastMsgTime)]
    /\ UNCHANGED <<chatStates, pm, sessions, turns, nextThread, events, errorsSent,
                   seenMsgs, nextMsg, buffered, whitelist, keywords, filterEnabled,
                   digestPending, digestRuns, reqs, replies, sentTexts, last, now>>

ResumeSpec == ResumeInit /\ [][ResumeStep]_vars

----------------------------------------------------------------------------
\* truncateHistory, which FormatForNewThread applies to the history without
\* the current message.  Create times and the clock are whole minutes.

\* PromptConfig's two limits: disabled, small, and past the history's length.
PromptConfigs ==
    [MaxHistoryCount : {-1, 0, 1, 2, MaxHistory, MaxHistory + 1},
     MaxHistoryMinutes : 0..(MaxTime + 1)]

\* The last recentCount messages the code keeps whatever their age.
RecentCount(n, cfg) ==
    IF cfg.MaxHistoryCount <= 0 \/ cfg.MaxHistoryCount > n THEN n
    ELSE cfg.MaxHistoryCount

truncateHistory_AtCutoff(messages, cfg, clock) ==
    IF Len(messages) = 0 THEN messages
    ELSE LET n == Len(messages)
             recentCount == RecentCount(n, cfg)
             olderMessages == SubSeq(messages, 1, n - recentCount)
             recentMessages == SubSeq(messages, n - recentCount + 1, n)
             cutoffTime == clock - cfg.MaxHistoryMinutes
             extraMessages ==
                 IF cfg.MaxHistoryMinutes > 0 /\ Len(olderMessages) > 0
                 THEN SelectSeq(olderMessages, LAMBDA m : m.CreateTime >= cutoffTime)
                 ELSE <<>>
         IN extraMessages \o recentMessages

truncateHistory(messages, cfg, clock) ==
    IF Len(messages) = 0 THEN messages
    ELSE LET n == Len(messages)
             recentCount == RecentCount(n, cfg)
             olderMessages == SubSeq(messages, 1, n - recentCount)
             recentMessages == SubSeq(messages, n - recentCount + 1, n)
             cutoffTime == clock - cfg.MaxHistoryMinutes
             extraMessages ==
                 IF cfg.MaxHistoryMinutes > 0 /\ Len(olderMessages) > 0
                 THEN SelectSeq(olderMessages, LAMBDA m : IsAfter(m, cutoffTime))
                 ELSE <<>>
         IN extraMessages \o recentMessages

TruncateInit ==
    /\ InitProgram
    /\ whitelist = {} /\ filterEnabled = FALSE
    /\ probe \in {[op |-> "truncate", stage |-> "in", messages |-> h, cfg |-> cfg,
                   clock |-> n, result |-> <<>>] :
                      h \in Histories, cfg \in PromptConfigs,
                      n \in MaxTime..(MaxTime + 1)}

\* FormatForNewThread truncates the history it is about to format.
TruncateStep ==
    /\ probe.op = "truncate" /\ probe.stage = "in"
    /\ probe' = [probe EXCEPT !.stage = "out",
                              !.result = truncateHistory(probe.messages, probe.cfg,
                                                         probe.clock)]
    /\ UNCHANGED <<chatStates, pm, sessions, turns, nextThread, events, errorsSent,
                   seenMsgs, nextMsg, buffered, whitelist, keywords, filterEnabled,
                   digestPending, digestRuns, reqs, replies, sentTexts, last, now>>

TruncateSpec == TruncateInit /\ [][TruncateStep]_vars

----------------------------------------------------------------------------
\* Triage at ingress, over the tables the tool surface can have left: the
\* platform delivers messages one after the other and handleMessage triages
\* each.  The requests HandleMessage accepts stay in set-up.

\* The trigger_keywords tables: each keyword in at most one row (the column
\* is UNIQUE), at priority 1, 2 or 3.
KeywordTables ==
    {t \in SUBSET [keyword : {<<"bug">>, <<"de">>}, priority : 1..3] :
        \A a, b \in t : a.keyword = b.keyword => a = b}

\* probe in this specification: the triage calls so far, each with its
\* arguments and its result.
TriageInit ==
    /\ InitBase
    /\ whitelist \in SUBSET Chats
    /\ keywords \in KeywordTables
    /\ filterEnabled \in BOOLEAN
    /\ probe = [op |-> "triage", log |-> <<>>]

TriageDeliver ==
    \E c \in Chats, content \in Contents, mentionsBot \in BOOLEAN :
      \E should \in FilterAnswers(ChatTypeOf(c), mentionsBot) :
        LET triage == ShouldProcessImmediately(c, content, mentionsBot)
        IN /\ nextMsg < MaxTriaged
           /\ nextMsg' = nextMsg + 1
           /\ handleMessage([ChatID |-> c, MsgID |-> MsgName(nextMsg + 1),
                             Content |-> content, MentionsBot |-> mentionsBot,
                             CreateTime |-> nextMsg + 1,
                             MsgCreateTime |-> CreateTimeOf(nextMsg + 1)], should)
           /\ probe' = [probe EXCEPT !.log =
                           Append(@, [msgID |-> MsgName(nextMsg + 1), chat |-> c,
                                      content |-> content, mentionsBot |-> mentionsBot,
                                      immediate |-> triage[1], reason |-> triage[2]])]
           /\ UNCHANGED <<now, sessions, turns, nextThread, events, errorsSent,
                          whitelist, keywords, filterEnabled, digestPending,
                          digestRuns, replies>>

TriageSpec == TriageInit /\ [][TriageDeliver]_vars

----------------------------------------------------------------------------
\* The ACP client's read loop.  A line of the backend is a JSON object; id is
\* 0 when the line has no "id", method is "" when it has no "method".

\* The lines the backend writes: responses (id), notifications (method) and
\* approval requests (both).
Lines ==
    [id : 0..MaxRequests,
     method : {"", "turn/completed", "item/commandExecution/requestApproval"}]

\* json.Unmarshal of a line into a Response and into a Notification: each
\* takes the fields it has and ignores the others.
UnmarshalResponse(line) == [ID |-> line.id]
UnmarshalNotification(line) == [ID |-> line.id, Method |-> line.method]

\* Client.RespondToApproval: the response written to the backend's stdin.
RespondToApproval(requestID, decision) == [ID |-> requestID, Decision |-> decision]

\* Client.handleLine; c is the client (its pending requests, what it wrote to
\* stdin, the responses it handed to waiting requests, its events channel)
\* and full says whether the events channel is full.
handleLine(c, line, full) ==
    LET resp == UnmarshalResponse(line)
        notif == UnmarshalNotification(line)
    IN IF resp.ID # 0
       THEN IF resp.ID \in c.pending
            THEN [c EXCEPT !.delivered = Append(@, line),
                           !.pending = @ \ {resp.ID}]
            ELSE c
       ELSE IF notif.Method # ""
            THEN IF notif.ID # 0
                 THEN [c EXCEPT !.written = Append(@, RespondToApproval(notif.ID, "accept"))]
                 ELSE IF full THEN c
                 ELSE [c EXCEPT !.events = Append(@, notif.Method)]
       ELSE c

AcpInit ==
    /\ InitProgram
    /\ whitelist = {} /\ filterEnabled = FALSE
    /\ probe = [op |-> "acp", requestID |-> 0, pending |-> {}, written |-> <<>>,
                delivered |-> <<>>, events |-> <<>>, read |-> <<>>]

\* Client.sendRequest up to its wait for the response.
sendRequest ==
    /\ probe.op = "acp"
    /\ probe.requestID < MaxRequests
    /\ probe' = [probe EXCEPT !.requestID = @ + 1,
                              !.pending = @ \cup {probe.requestID + 1}]
    /\ UNCHANGED <<chatStates, pm, sessions, turns, nextThread, events, errorsSent,
                   seenMsgs, nextMsg, buffered, whitelist, keywords, filterEnabled,
                   digestPending, digestRuns, reqs, replies, sentTexts, last, now>>

\* Client.readLoop reads one line.
readLoop ==
    \E line \in Lines, full \in BOOLEAN :
        /\ probe.op = "acp"
        /\ Len(probe.read) < MaxLines
        /\ probe' = [handleLine(probe, line, full) EXCEPT !.read = Append(@, line)]
        /\ UNCHANGED <<chatStates, pm, sessions, turns, nextThread, events, errorsSent,
                       seenMsgs, nextMsg, buffered, whitelist, keywords, filterEnabled,
                       digestPending, digestRuns, reqs, replies, sentTexts, last, now>>

AcpNext == sendRequest \/ readLoop

AcpSpec == AcpInit /\ [][AcpNext]_vars

----------------------------------------------------------------------------
\* The backend sub-process going away: its stdout reaches EOF and
\* Client.readLoop returns.  Nothing else is told: the client stays running,
\* its events channel stays open, and the events already read are still
\* handled.  From then on every request to the backend fails, so Trigger
\* fails at the thread it tries to resume and then to create.

\* probe in this specification: whether the backend is up and, from the EOF
\* on, the turns that were running and the failure texts sent by then.
GoneInit ==
    /\ InitProgram
    /\ probe = [op |-> "gone", up |-> TRUE, inflight |-> {},
                failsAtEof |-> [c \in Chats |-> 0]]

\* Client.readLoop at EOF.
readLoopEOF ==
    /\ probe.op = "gone" /\ probe.up
    /\ probe' = [probe EXCEPT
                    !.up = FALSE,
                    !.inflight = {t \in DOMAIN turns : turns[t].status = "running"},
                    !.failsAtEof = [c \in Chats |-> sentTexts[c].fail]]
    /\ last' = NoCall
    /\ UNCHANGED <<chatStates, pm, sessions, turns, nextThread, events, errorsSent,
                   seenMsgs, nextMsg, buffered, whitelist, keywords, filterEnabled,
                   digestPending, digestRuns, reqs, replies, sentTexts, now>>

\* processMessage while the backend is up.
GoneProcessUp == probe.op = "gone" /\ probe.up /\ processMessage

\* processMessage once the backend is gone: ResumeThread and CreateThread
\* return errors.
GoneProcessDown ==
    /\ probe.op = "gone" /\ ~probe.up
    /\ \E c \in Chats :
          \/ \E fresh \in BOOLEAN : processMessageFail(c, fresh, FALSE, "create")
          \/ processMessageRecord(c)
          \/ processMessageDefer(c)
    /\ last' = NoCall
    /\ UNCHANGED <<now, probe, events, errorsSent, seenMsgs, nextMsg, buffered,
                   whitelist, keywords, filterEnabled, digestPending, digestRuns,
                   replies>>

GoneBackend == probe.op = "gone" /\ probe.up /\ Backend

GoneNext ==
    \/ Deliver
    \/ GoneProcessUp
    \/ GoneProcessDown
    \/ GoneBackend
    \/ HandleCodexEvent
    \/ readLoopEOF

GoneSpec == GoneInit /\ [][GoneNext]_vars

----------------------------------------------------------------------------
\* The session store failing under ResolveThread: sessionRepo.GetByChat or
\* sessionRepo.Save returns an error.

\* probe in this specification: the requests whose ResolveThread met a store
\* error.
StoreInit ==
    /\ InitProgram
    /\ probe = [op |-> "store", failed |-> {}]

\* Trigger with the store failing at GetByChat or at Save.
StoreFail ==
    /\ probe.op = "store"
    /\ \E c \in Chats :
        \E in \in ResolveInputs(c), failAt \in {"get", "save"} :
          /\ processMessageFail(c, in[1], in[2], failAt)
          /\ probe' = [probe EXCEPT !.failed = @ \cup {pm[c].req}]
    /\ last' = NoCall
    /\ UNCHANGED <<now, events, errorsSent, seenMsgs, nextMsg, buffered, whitelist,
                   keywords, filterEnabled, digestPending, digestRuns, replies>>

\* processMessage with the store working.
StoreOk ==
    /\ probe.op = "store"
    /\ \E c \in Chats :
          \/ \E in \in ResolveInputs(c) : processMessageTrigger(c, in[1], in[2])
          \/ processMessageRecord(c)
          \/ processMessageDefer(c)
    /\ last' = NoCall
    /\ UNCHANGED <<now, probe, events, errorsSent, seenMsgs, nextMsg, buffered,
                   whitelist, keywords, filterEnabled, digestPending, digestRuns,
                   replies>>

StoreNext ==
    \/ Deliver
    \/ StoreFail
    \/ StoreOk
    \/ Backend
    \/ HandleCodexEvent

StoreSpec == StoreInit /\ [][StoreNext]_vars

----------------------------------------------------------------------------
\* Shutdown: the signal goroutine of main, DigestScheduler.Stop with its two
\* loops, Client.Stop with the sub-process, the pending requests and the two
\* readers.

\* probe in this specification:
\*   main         where the signal goroutine of main is
\*   atSignal     what the signal met: the digest loop's position and the
\*                number of pending requests
\*   schedCtx     DigestScheduler.ctx is cancelled
\*   digestLoop, runLeft, tick     digestLoop's position, the chats left in
\*                its processDigests, a value waiting in its ticker
\*   cleanupLoop, cleanupTick      the same for cleanupLoop
\*   running, clientCtx, stdin, eventsClosed     Client's fields
\*   proc, exitsOnEOF     the sub-process, and whether it exits at EOF
\*   waited, killed       seconds Client.Stop has waited, Process.Kill called
\*   pending      callers waiting in sendRequest
\*   unread       lines the sub-process wrote that readLoop has not handled
\*   readLoop, readStderr     the two readers
ShutdownInit ==
    /\ InitProgram
    /\ whitelist = {} /\ filterEnabled = FALSE
    /\ \E e \in BOOLEAN :
         probe = [op |-> "shutdown", main |-> "serving",
                  atSignal |-> [digestLoop |-> "none", pending |-> 0],
                  schedCtx |-> FALSE,
                  digestLoop |-> "select", runLeft |-> 0, tick |-> FALSE,
                  cleanupLoop |-> "select", cleanupTick |-> FALSE,
                  running |-> TRUE, clientCtx |-> FALSE, stdin |-> "open",
                  eventsClosed |-> FALSE, proc |-> "alive", exitsOnEOF |-> e,
                  waited |-> 0, killed |-> FALSE, pending |-> 0, unread |-> 0,
                  readLoop |-> "scan", readStderr |-> "scan"]

\* The process is over: os.Exit(0), or a panic of one of its goroutines.
ShutdownOver == probe.main \in {"exit", "panic"}

\* One step of the shutdown specification: probe becomes p.
ShutdownStep(p) ==
    /\ probe.op = "shutdown"
    /\ ~ShutdownOver
    /\ probe' = p
    /\ UNCHANGED <<chatStates, pm, sessions, turns, nextThread, events, errorsSent,
                   seenMsgs, nextMsg, buffered, whitelist, keywords, filterEnabled,
                   digestPending, digestRuns, reqs, replies, sentTexts, last, now>>

\* main: the signal arrives.
ShutdownSignal ==
    /\ probe.main = "serving"
    /\ ShutdownStep([probe EXCEPT !.main = "schedulerStop",
                                  !.atSignal = [digestLoop |-> probe.digestLoop,
                                                pending |-> probe.pending]])

\* FeishuServer.Stop, DigestScheduler.Stop: cancel.
SchedulerStopCancel ==
    /\ probe.main = "schedulerStop"
    /\ ShutdownStep([probe EXCEPT !.main = "schedulerWait", !.schedCtx = TRUE])

\* DigestScheduler.Stop: wg.Wait returns; then feishuClient.Stop.
SchedulerStopWait ==
    /\ probe.main = "schedulerWait"
    /\ probe.digestLoop = "done" /\ probe.cleanupLoop = "done"
    /\ ShutdownStep([probe EXCEPT !.main = "ipcStop"])

\* ipcHandler.Stop.
IpcStop ==
    /\ probe.main = "ipcStop"
    /\ ShutdownStep([probe EXCEPT !.main = "clientStop"])

\* Client.Stop up to its select: running = false, cancel, stdin.Close.
ClientStopBegin ==
    /\ probe.main = "clientStop"
    /\ IF probe.running
         THEN ShutdownStep([probe EXCEPT !.main = "clientWait", !.running = FALSE,
                                         !.clientCtx = TRUE, !.stdin = "closed"])
         ELSE ShutdownStep([probe EXCEPT !.main = "exit"])

\* Client.Stop: cmd.Wait returned.
ClientStopDone ==
    /\ probe.main = "clientWait"
    /\ probe.proc = "exited"
    /\ ShutdownStep([probe EXCEPT !.main = "clientClose"])

\* Client.Stop: time.After fired, Process.Kill.
ClientStopKill ==
    /\ probe.main = "clientWait"
    /\ probe.waited = KillWait
    /\ ShutdownStep([probe EXCEPT !.main = "clientClose", !.killed = TRUE,
                                  !.proc = "exited"])

\* Client.Stop: close(c.events).
ClientStopClose ==
    /\ probe.main = "clientClose"
    /\ ShutdownStep([probe EXCEPT !.main = "clientJoin", !.eventsClosed = TRUE])

\* Client.Stop: wg.Wait returns; main calls os.Exit(0).
ClientStopJoin ==
    /\ probe.main = "clientJoin"
    /\ probe.readLoop = "done" /\ probe.readStderr = "done"
    /\ ShutdownStep([probe EXCEPT !.main = "exit"])

\* A second passes while Client.Stop waits in its select.
Second ==
    /\ probe.main = "clientWait"
    /\ probe.waited < KillWait
    /\ ShutdownStep([probe EXCEPT !.waited = @ + 1])

\* A ticker of the scheduler fires while the program serves.
TickerFire ==
    /\ probe.main = "serving"
    /\ \/ ~probe.tick /\ ShutdownStep([probe EXCEPT !.tick = TRUE])
       \/ ~probe.cleanupTick /\ ShutdownStep([probe EXCEPT !.cleanupTick = TRUE])

\* A digestLoop that has no ctx.Done case in its select.
digestLoopDone_NoDoneCase ==
    /\ probe.digestLoop = "never"
    /\ ShutdownStep(probe)

\* digestLoop's select takes ctx.Done.
digestLoopDone ==
    /\ probe.digestLoop = "select"
    /\ probe.schedCtx
    /\ ShutdownStep([probe EXCEPT !.digestLoop = "done"])

\* digestLoop's select takes the ticker: processDigests, chat by chat.
digestLoopRun ==
    \/ /\ probe.digestLoop = "select"
       /\ probe.tick
       /\ \E k \in 0..MaxRunChats :
            ShutdownStep([probe EXCEPT !.tick = FALSE, !.runLeft = k,
                                       !.digestLoop = IF k = 0 THEN "select" ELSE "run"])
    \/ /\ probe.digestLoop = "run"
       /\ ShutdownStep([probe EXCEPT !.runLeft = @ - 1,
                                     !.digestLoop = IF probe.runLeft = 1
                                                    THEN "select" ELSE "run"])

\* cleanupLoop's select takes ctx.Done.
cleanupLoopDone ==
    /\ probe.cleanupLoop = "select"
    /\ probe.schedCtx
    /\ ShutdownStep([probe EXCEPT !.cleanupLoop = "done"])

\* cleanupLoop's select takes the ticker: cleanup, then back to the select.
cleanupLoopRun ==
    \/ /\ probe.cleanupLoop = "select"
       /\ probe.cleanupTick
       /\ ShutdownStep([probe EXCEPT !.cleanupTick = FALSE, !.cleanupLoop = "cleanup"])
    \/ /\ probe.cleanupLoop = "cleanup"
       /\ ShutdownStep([probe EXCEPT !.cleanupLoop = "select"])

\* Client.sendRequest: a caller writes its request and waits.
RequestPending ==
    /\ probe.running
    /\ probe.pending < MaxRequests
    /\ ShutdownStep([probe EXCEPT !.pending = @ + 1])

\* Client.sendRequest: the response arrives.
RequestAnswered ==
    /\ probe.pending > 0
    /\ probe.proc = "alive"
    /\ ShutdownStep([probe EXCEPT !.pending = @ - 1])

\* Client.sendRequest: the select takes c.ctx.Done.
RequestCtxDone ==
    /\ probe.pending > 0
    /\ probe.clientCtx
    /\ ShutdownStep([probe EXCEPT !.pending = @ - 1])

\* The sub-process reads EOF on its stdin and exits.
ProcessExitOnEOF ==
    /\ probe.proc = "alive"
    /\ probe.stdin = "closed"
    /\ probe.exitsOnEOF
    /\ ShutdownStep([probe EXCEPT !.proc = "exited"])

\* exec.CommandContext kills the sub-process when c.ctx is cancelled.
CommandContextKill ==
    /\ probe.proc = "alive"
    /\ probe.clientCtx
    /\ ShutdownStep([probe EXCEPT !.proc = "exited"])

\* The sub-process writes a line to its stdout.
ProcessWrite ==
    /\ probe.proc = "alive"
    /\ probe.unread < MaxLines
    /\ ShutdownStep([probe EXCEPT !.unread = @ + 1])

\* readLoop: Scan returns a line, handleLine; a notification is sent to c.events,
\* and a send on the closed channel panics. At the end of the stream the loop
\* ends.
readLoopScan ==
    /\ probe.readLoop = "scan"
    /\ \/ /\ probe.unread > 0
          /\ \E notification \in BOOLEAN :
               IF notification /\ probe.eventsClosed
               THEN ShutdownStep([probe EXCEPT !.main = "panic"])
               ELSE ShutdownStep([probe EXCEPT !.unread = @ - 1])
       \/ /\ probe.unread = 0
          /\ probe.proc = "exited"
          /\ ShutdownStep([probe EXCEPT !.readLoop = "done"])

\* readStderr: the stream ends.
readStderrScan ==
    /\ probe.readStderr = "scan"
    /\ probe.proc = "exited"
    /\ ShutdownStep([probe EXCEPT !.readStderr = "done"])

ShutdownNext ==
    \/ ShutdownSignal
    \/ SchedulerStopCancel
    \/ SchedulerStopWait
    \/ IpcStop
    \/ ClientStopBegin
    \/ ClientStopDone
    \/ ClientStopKill
    \/ ClientStopClose
    \/ ClientStopJoin
    \/ Second
    \/ TickerFire
    \/ digestLoopDone
    \/ digestLoopRun
    \/ cleanupLoopDone
    \/ cleanupLoopRun
    \/ RequestPending
    \/ RequestAnswered
    \/ RequestCtxDone
    \/ ProcessExitOnEOF
    \/ CommandContextKill
    \/ ProcessWrite
    \/ readLoopScan
    \/ readStderrScan

\* Every goroutine of the program that can take a step takes one, the
\* sub-process dies when it is killed, and time passes.
ShutdownFairness ==
    /\ WF_vars(SchedulerStopCancel) /\ WF_vars(SchedulerStopWait)
    /\ WF_vars(IpcStop) /\ WF_vars(ClientStopBegin)
    /\ WF_vars(ClientStopDone \/ ClientStopKill)
    /\ WF_vars(ClientStopClose) /\ WF_vars(ClientStopJoin)
    /\ WF_vars(Second)
    /\ WF_vars(digestLoopDone \/ digestLoopRun)
    /\ WF_vars(cleanupLoopDone \/ cleanupLoopRun)
    /\ WF_vars(CommandContextKill)
    /\ WF_vars(readLoopScan) /\ WF_vars(readStderrScan)

ShutdownSpec == ShutdownInit /\ [][ShutdownNext]_vars /\ ShutdownFairness

----------------------------------------------------------------------------
\* The buffered_messages table by itself, with the content column and with
\* clock readings finer than the whole seconds the table stores.

\* time.Time.Unix of a clock reading: whole seconds.
UnixOfTick(t) == t \div TicksPerSecond

\* The row AddMessage writes for msg.
BufferedRow(msg) ==
    [chat_id |-> msg.ChatID, msg_id |-> msg.MsgID, content |-> msg.Content,
     created_at |-> UnixOfTick(msg.CreatedAt), processed |-> FALSE]

\* INSERT OR REPLACE of a row into a table whose msg_id is UNIQUE.
InsertOrReplace(rows, row) ==
    [rows |-> {r \in rows : r.msg_id # row.msg_id} \cup {row}, err |-> FALSE]

\* INSERT OR IGNORE of a row into a table whose msg_id is UNIQUE.
InsertOrIgnore(rows, row) ==
    [rows |-> IF \E r \in rows : r.msg_id = row.msg_id THEN rows ELSE rows \cup {row},
     err |-> FALSE]

\* DELETE FROM buffered_messages WHERE created_at < before.Unix().
DeleteOld_AnyRow(rows, before) ==
    {r \in rows : ~(r.created_at < UnixOfTick(before))}

\* DELETE FROM buffered_messages WHERE created_at < before.Unix() AND
\* processed = 1.
DeleteOld(rows, before) ==
    {r \in rows : ~(r.created_at < UnixOfTick(before) /\ r.processed)}

\* probe in this specification:
\*   clock     time.Now, in ticks
\*   rows      the buffered_messages table
\*   made      msg_id -> the clock reading its row was created at
\*   call      the last operation on the table and what it returned
BufferInit ==
    /\ InitProgram
    /\ whitelist = {} /\ filterEnabled = FALSE
    /\ probe = [op |-> "buffer", clock |-> 0, rows |-> {}, made |-> <<>>,
                call |-> [kind |-> "none"]]

\* One step of the table's specification: probe becomes p.
BufferStep(p) ==
    /\ probe.op = "buffer"
    /\ probe' = p
    /\ UNCHANGED <<chatStates, pm, sessions, turns, nextThread, events, errorsSent,
                   seenMsgs, nextMsg, buffered, whitelist, keywords, filterEnabled,
                   digestPending, digestRuns, reqs, replies, sentTexts, last, now>>

\* bufferRepo.AddMessage, as FeishuServer.handleMessage calls it with
\* CreatedAt: time.Now().
BufferAdd ==
    /\ probe.op = "buffer"
    /\ \E c \in Chats, n \in 1..MaxMsgs, content \in Contents :
        LET msg == [ChatID |-> c, MsgID |-> MsgName(n), Content |-> content,
                    CreatedAt |-> probe.clock]
            res == InsertOrIgnore(probe.rows, BufferedRow(msg))
            existed == \E r \in probe.rows : r.msg_id = msg.MsgID
        IN BufferStep([probe EXCEPT
               !.rows = res.rows,
               !.made = IF existed THEN @
                        ELSE [m \in DOMAIN @ \cup {msg.MsgID} |->
                                 IF m = msg.MsgID THEN probe.clock ELSE @[m]],
               !.call = [kind |-> "add", msg |-> msg, existed |-> existed,
                         err |-> res.err]])

\* bufferRepo.MarkProcessed.
BufferMark ==
    /\ probe.op = "buffer"
    /\ \E ids \in SUBSET {r.msg_id : r \in probe.rows} :
        /\ ids # {}
        /\ BufferStep([probe EXCEPT
               !.rows = {IF r.msg_id \in ids THEN [r EXCEPT !.processed = TRUE] ELSE r :
                           r \in probe.rows},
               !.call = [kind |-> "mark", ids |-> ids]])

\* bufferRepo.CleanupOld.
BufferCleanup ==
    /\ probe.op = "buffer"
    /\ \E before \in 0..MaxTicks :
        /\ before <= probe.clock
        /\ BufferStep([probe EXCEPT !.rows = DeleteOld(probe.rows, before),
                                    !.call = [kind |-> "cleanup", before |-> before]])

\* Part of a second passes.
BufferTick ==
    /\ probe.op = "buffer"
    /\ probe.clock < MaxTicks
    /\ BufferStep([probe EXCEPT !.clock = @ + 1, !.call = [kind |-> "none"]])

BufferNext == BufferAdd \/ BufferMark \/ BufferCleanup \/ BufferTick

BufferSpec == BufferInit /\ [][BufferNext]_vars

----------------------------------------------------------------------------
\* The tool surface's writes to the whitelist and the keywords, between the
\* messages the platform delivers.

\* An AddToWhitelist that returns success without writing.
AddToWhitelist_Dropped(chatID) == whitelist

\* bufferRepo.AddToWhitelist: INSERT OR REPLACE on the unique chat_id.
AddToWhitelist(chatID) == whitelist \cup {chatID}

\* bufferRepo.RemoveFromWhitelist.
RemoveFromWhitelist(chatID) == whitelist \ {chatID}

\* bufferRepo.AddKeyword: INSERT OR REPLACE on the unique keyword.
AddKeyword(keyword, priority) ==
    {k \in keywords : k.keyword # keyword}
        \cup {[keyword |-> keyword, priority |-> priority]}

\* bufferRepo.RemoveKeyword.
RemoveKeyword(keyword) == {k \in keywords : k.keyword # keyword}

\* Keywords and priorities the tool surface is called with; priority 0 is a
\* request without one.
ToolKeywords == {<<"bug">>}
ToolPriorities == {0, 2}

\* probe in this specification:
\*   log           the triage calls so far, as in the triage specification
\*   lastWrite     chat -> the last whitelist write that returned success
\*   lastKeyword   keyword -> the last keyword write that returned success
ToolInit ==
    /\ InitBase
    /\ whitelist = {}
    /\ keywords = {}
    /\ filterEnabled \in BOOLEAN
    /\ probe = [op |-> "tool", log |-> <<>>,
                lastWrite |-> [c \in Chats |-> "none"],
                lastKeyword |-> [k \in ToolKeywords |-> [kind |-> "none", priority |-> 0]]]

\* A write of the tool surface: the tables become w and k, probe becomes p.
ToolWrite(w, k, p) ==
    /\ probe.op = "tool"
    /\ whitelist' = w
    /\ keywords' = k
    /\ probe' = p
    /\ UNCHANGED <<chatStates, pm, sessions, turns, nextThread, events, errorsSent,
                   seenMsgs, nextMsg, buffered, filterEnabled, digestPending,
                   digestRuns, reqs, replies, sentTexts, last, now>>

\* Server.handleWhitelist, POST: the chat of the request, or else the chat of
\* the current context; without either the request is refused.
handleWhitelist ==
    /\ probe.op = "tool"
    /\ \E reqChatID \in Chats \cup {""}, ctxChatID \in Chats \cup {""} :
         LET chatID == IF reqChatID = "" THEN ctxChatID ELSE reqChatID
         IN /\ chatID # ""
            /\ ToolWrite(AddToWhitelist(chatID), keywords,
                         [probe EXCEPT !.lastWrite[chatID] = "post"])

\* Server.handleWhitelistItem, DELETE.
handleWhitelistItem ==
    /\ probe.op = "tool"
    /\ \E pathChatID \in Chats \cup {""}, ctxChatID \in Chats \cup {""} :
         LET chatID == IF pathChatID = "" THEN ctxChatID ELSE pathChatID
         IN /\ chatID # ""
            /\ ToolWrite(RemoveFromWhitelist(chatID), keywords,
                         [probe EXCEPT !.lastWrite[chatID] = "delete"])

\* Server.handleKeywords, POST: a request without a priority gets priority 1.
handleKeywords ==
    /\ probe.op = "tool"
    /\ \E keyword \in ToolKeywords, reqPriority \in ToolPriorities :
         LET priority == IF reqPriority = 0 THEN 1 ELSE reqPriority
         IN ToolWrite(whitelist, AddKeyword(keyword, priority),
                      [probe EXCEPT !.lastKeyword[keyword] =
                                        [kind |-> "post", priority |-> priority]])

\* Server.handleKeywordItem, DELETE.
handleKeywordItem ==
    /\ probe.op = "tool"
    /\ \E keyword \in ToolKeywords :
         ToolWrite(whitelist, RemoveKeyword(keyword),
                   [probe EXCEPT !.lastKeyword[keyword] =
                                     [kind |-> "delete", priority |-> 0]])

ToolNext ==
    \/ TriageDeliver
    \/ handleWhitelist
    \/ handleWhitelistItem
    \/ handleKeywords
    \/ handleKeywordItem

ToolSpec == ToolInit /\ [][ToolNext]_vars

----------------------------------------------------------------------------
\* A backend that can send turn/completed for a turn a second time.

\* probe in this specification: the number of repeated notifications.
AgainInit ==
    /\ InitProgram
    /\ whitelist = {} /\ filterEnabled = FALSE
    /\ probe = [op |-> "again", sent |-> 0]

\* The backend repeats the turn/completed of a turn it has completed.
BackendTurnCompletedAgain ==
    /\ probe.op = "again"
    /\ probe.sent < MaxAgain
    /\ \E t \in DOMAIN turns :
          /\ turns[t].status \in {"completed", "ended"}
          /\ events' = Append(events, [type |-> "TurnComplete",
                                       thread |-> turns[t].thread,
                                       turn |-> t, delta |-> <<>>])
    /\ probe' = [probe EXCEPT !.sent = @ + 1]
    /\ last' = NoCall
    /\ UNCHANGED <<now, chatStates, pm, sessions, turns, nextThread, errorsSent,
                   seenMsgs, nextMsg, buffered, whitelist, keywords, filterEnabled,
                   digestPending, digestRuns, reqs, replies, sentTexts>>

AgainNext ==
    \/ Deliver
    \/ processMessage
    \/ Backend
    \/ BackendTurnCompletedAgain
    \/ HandleCodexEvent

AgainSpec == AgainInit /\ [][AgainNext]_vars

----------------------------------------------------------------------------
\* FeishuServer.handleMessage's deduplication, goroutine by goroutine: the
\* platform client starts handleMessage in a goroutine of its own for every
\* inbound event, isMessageSeen takes and releases the read lock, and
\* markMessageSeen then takes the write lock.

\* probe in this specification:
\*   handler     goroutine -> where it is in handleMessage, and its msg_id
\*   triaged     msg_id -> the number of goroutines that went on to triage it
InboundHandlers == 1..MaxHandlers

RaceInit ==
    /\ InitProgram
    /\ whitelist = {} /\ filterEnabled = FALSE
    /\ probe = [op |-> "race",
                handler |-> [h \in InboundHandlers |-> [pc |-> "none", msgID |-> ""]],
                triaged |-> [n \in 1..MaxMsgs |-> 0]]

\* One step of a goroutine: the dedup cache becomes seen, probe becomes p.
RaceStep(seen, p) ==
    /\ probe.op = "race"
    /\ seenMsgs' = seen
    /\ probe' = p
    /\ UNCHANGED <<chatStates, pm, sessions, turns, nextThread, events, errorsSent,
                   nextMsg, buffered, whitelist, keywords, filterEnabled,
                   digestPending, digestRuns, reqs, replies, sentTexts, last, now>>

\* The platform client's event handler: go c.handleMessage(event), for a new
\* message or for one it delivers again.
GoHandleMessage ==
    /\ probe.op = "race"
    /\ \E h \in InboundHandlers, n \in 1..MaxMsgs :
         /\ probe.handler[h].pc = "none"
         /\ RaceStep(seenMsgs,
                     [probe EXCEPT !.handler[h] = [pc |-> "isMessageSeen", msgID |-> n]])

\* handleMessage: if s.isMessageSeen(msg.MsgID) { return }.
HandlerIsMessageSeen ==
    /\ probe.op = "race"
    /\ \E h \in InboundHandlers :
         /\ probe.handler[h].pc = "isMessageSeen"
         /\ RaceStep(seenMsgs,
                     [probe EXCEPT !.handler[h].pc =
                         IF isMessageSeen(MsgName(probe.handler[h].msgID))
                         THEN "duplicate" ELSE "markMessageSeen"])

\* handleMessage: s.markMessageSeen(msg.MsgID), and on to triage.
HandlerMarkMessageSeen ==
    /\ probe.op = "race"
    /\ \E h \in InboundHandlers :
         /\ probe.handler[h].pc = "markMessageSeen"
         /\ RaceStep(markMessageSeen(MsgName(probe.handler[h].msgID)),
                     [probe EXCEPT !.handler[h].pc = "triage",
                                   !.triaged[probe.handler[h].msgID] = @ + 1])

RaceNext == GoHandleMessage \/ HandlerIsMessageSeen \/ HandlerMarkMessageSeen

RaceSpec == RaceInit /\ [][RaceNext]_vars

----------------------------------------------------------------------------
\* Accepted requests with a backend whose turn/completed can be lost on the
\* way: Client.handleLine and codexRepo.forwardEvents drop a notification when
\* their channel is full.

\* probe in this specification: the turns whose turn/completed was dropped.
BusyInit ==
    /\ InitProgram
    /\ whitelist = {} /\ filterEnabled = FALSE
    /\ probe = [op |-> "busy", dropped |-> {}]

\* The backend completes a turn and the notification is dropped at a full
\* channel.
BackendTurnCompletedDropped ==
    /\ probe.op = "busy"
    /\ \E t \in DOMAIN turns :
          /\ turns[t].status = "running"
          /\ turns' = [turns EXCEPT ![t].status = "completed"]
          /\ probe' = [probe EXCEPT !.dropped = @ \cup {t}]
    /\ last' = NoCall
    /\ UNCHANGED <<now, chatStates, pm, sessions, nextThread, events, errorsSent,
                   seenMsgs, nextMsg, buffered, whitelist, keywords, filterEnabled,
                   digestPending, digestRuns, reqs, replies, sentTexts>>

BusyNext ==
    \/ Deliver
    \/ processMessage
    \/ Backend
    \/ BackendTurnCompletedDropped
    \/ HandleCodexEvent

\* The goroutine of processMessage runs, and each of its waits for the backend
\* ends: with the response, or with sendRequest's timeout.
BusySpec == BusyInit /\ [][BusyNext]_vars /\ WF_vars(processMessage)

----------------------------------------------------------------------------
\* The way of a notification: Client.readLoop and handleLine send it to
\* c.events, codexRepo.forwardEvents receives it there and sends it to
\* r.eventsCh, the event loop of ConversationService receives it there; and
\* Client.Stop and codexRepo.Stop, which close the two channels.

\* probe in this specification:
\*   written, unread     lines the sub-process wrote, and those not yet handled
\*   events, eventsCh    the number of events in c.events and in r.eventsCh
\*   holding       forwardEvents has received an event and not yet sent it on
\*   stop, viaRepo       where Stop is, and whether it is codexRepo.Stop
\*   proc, eventsClosed, eventsChClosed, readLoop, forward
\*   dropped, logged     per channel, the notifications dropped at the full
\*                 channel and the log lines written about it
\*   panic         the channel a goroutine sent on after its close
FanoutInit ==
    /\ InitProgram
    /\ whitelist = {} /\ filterEnabled = FALSE
    /\ probe = [op |-> "fanout", written |-> 0, unread |-> 0, events |-> 0,
                eventsCh |-> 0, holding |-> FALSE, stop |-> "none",
                viaRepo |-> FALSE, proc |-> "alive", eventsClosed |-> FALSE,
                eventsChClosed |-> FALSE, readLoop |-> "scan", forward |-> "range",
                dropped |-> [events |-> 0, eventsCh |-> 0],
                logged |-> [events |-> 0, eventsCh |-> 0],
                panic |-> "none"]

\* One step of this specification: probe becomes p.
FanoutStep(p) ==
    /\ probe.op = "fanout"
    /\ probe.panic = "none"
    /\ probe' = p
    /\ UNCHANGED <<chatStates, pm, sessions, turns, nextThread, events, errorsSent,
                   seenMsgs, nextMsg, buffered, whitelist, keywords, filterEnabled,
                   digestPending, digestRuns, reqs, replies, sentTexts, last, now>>

\* The sub-process writes a line.
FanoutWrite ==
    /\ probe.proc = "alive"
    /\ probe.written < MaxLines
    /\ FanoutStep([probe EXCEPT !.written = @ + 1, !.unread = @ + 1])

\* Client.readLoop: Scan returns a line and handleLine handles it; a
\* notification goes to c.events, or is dropped and logged if the channel is
\* full; the send panics if the channel is closed.  At the end of the stream
\* the loop ends.
FanoutReadLoop ==
    /\ probe.readLoop = "scan"
    /\ \/ /\ probe.unread > 0
          /\ \E notification \in BOOLEAN :
               IF ~notification
               THEN FanoutStep([probe EXCEPT !.unread = @ - 1])
               ELSE IF probe.eventsClosed
               THEN FanoutStep([probe EXCEPT !.panic = "events"])
               ELSE IF probe.events < EventsCap
               THEN FanoutStep([probe EXCEPT !.unread = @ - 1, !.events = @ + 1])
               ELSE FanoutStep([probe EXCEPT !.unread = @ - 1,
                                             !.dropped.events = @ + 1,
                                             !.logged.events = @ + 1])
       \/ /\ probe.unread = 0
          /\ probe.proc = "exited"
          /\ FanoutStep([probe EXCEPT !.readLoop = "done"])

\* codexRepo.forwardEvents: the range over client.Events() yields an event,
\* or ends when the channel is closed and empty.
FanoutForwardReceive ==
    /\ probe.forward = "range"
    /\ ~probe.holding
    /\ \/ /\ probe.events > 0
          /\ FanoutStep([probe EXCEPT !.events = @ - 1, !.holding = TRUE])
       \/ /\ probe.events = 0
          /\ probe.eventsClosed
          /\ FanoutStep([probe EXCEPT !.forward = "done"])

\* codexRepo.forwardEvents: convertEvent, and the send to r.eventsCh; a full
\* channel drops the event without a log line; the send panics if the channel
\* is closed.
FanoutForwardSend ==
    /\ probe.holding
    /\ \E converted \in BOOLEAN :
         IF ~converted
         THEN FanoutStep([probe EXCEPT !.holding = FALSE])
         ELSE IF probe.eventsChClosed
         THEN FanoutStep([probe EXCEPT !.panic = "eventsCh"])
         ELSE IF probe.eventsCh < EventsCap
         THEN FanoutStep([probe EXCEPT !.holding = FALSE, !.eventsCh = @ + 1])
         ELSE FanoutStep([probe EXCEPT !.holding = FALSE,
                                       !.dropped.eventsCh = @ + 1])

\* ConversationService.StartEventLoop receives an event.
FanoutEventLoop ==
    /\ probe.eventsCh > 0
    /\ FanoutStep([probe EXCEPT !.eventsCh = @ - 1])

\* Client.Stop, called by main or by codexRepo.Stop, up to the end of its
\* select: the sub-process has exited or was killed.
FanoutStopBegin ==
    /\ probe.stop = "none"
    /\ \E viaRepo \in BOOLEAN :
         FanoutStep([probe EXCEPT !.stop = "closeEvents", !.viaRepo = viaRepo,
                                  !.proc = "exited"])

\* Client.Stop: close(c.events).
FanoutStopCloseEvents ==
    /\ probe.stop = "closeEvents"
    /\ FanoutStep([probe EXCEPT !.stop = "join", !.eventsClosed = TRUE])

\* Client.Stop: c.wg.Wait returns.
FanoutStopJoin ==
    /\ probe.stop = "join"
    /\ probe.readLoop = "done"
    /\ FanoutStep([probe EXCEPT !.stop = IF probe.viaRepo THEN "closeEventsCh"
                                                           ELSE "stopped"])

\* codexRepo.Stop: close(r.eventsCh).
FanoutStopCloseEventsCh ==
    /\ probe.stop = "closeEventsCh"
    /\ FanoutStep([probe EXCEPT !.stop = "stopped", !.eventsChClosed = TRUE])

FanoutNext ==
    \/ FanoutWrite
    \/ FanoutReadLoop
    \/ FanoutForwardReceive
    \/ FanoutForwardSend
    \/ FanoutEventLoop
    \/ FanoutStopBegin
    \/ FanoutStopCloseEvents
    \/ FanoutStopJoin
    \/ FanoutStopCloseEventsCh

FanoutSpec == FanoutInit /\ [][FanoutNext]_vars

\* The digest loop and the goroutines it starts keep running: the ticker
\* fires again after every run, and every call a run makes returns.
LiveSpec == Spec /\ WF_vars(processDigests) /\ WF_vars(DigestChat)

----------------------------------------------------------------------------
\* Notions the claims use.

\* The turns of a chat whose set-up succeeded and whose TurnComplete the
\* event loop has not handled yet.
InFlight(c) ==
    {t \in DOMAIN turns :
        turns[t].chat = c /\ reqs[turns[t].req].st = "started"
        /\ turns[t].status # "ended"}

\* All the backend has streamed for a turn.
Emitted(t) == Flatten([k \in 1..turns[t].sent |-> Payload(t, k)])

\* The step in which the event loop handles the event at the head.
Handles(type) ==
    events # <<>> /\ Head(events).type = type /\ events' = Tail(events)

FailedReqs(c) == {i \in DOMAIN reqs : reqs[i].chat = c /\ reqs[i].st = "failed"}

\* The last request HandleMessage accepted for a chat, or 0.
LastReq(c) ==
    LET own == {i \in DOMAIN reqs : reqs[i].chat = c}
    IN IF own = {} THEN 0 ELSE CHOOSE i \in own : \A j \in own : j <= i

HasUnprocessed(m) == \E r \in buffered : r.msg_id = m /\ ~r.processed

\* The messages of h at the indices of S from i on, in h's order.
RECURSIVE KeepIdx(_, _, _)
KeepIdx(h, S, i) ==
    IF i > Len(h) THEN <<>>
    ELSE (IF i \in S THEN <<h[i]>> ELSE <<>>) \o KeepIdx(h, S, i + 1)

\* The ID is non-empty and some message of h has it.
Anchored(h, id) == id # "" /\ \E k \in DOMAIN h : h[k].ID = id

\* The event is one HandleCodexEvent drops: an AgentDelta or TurnComplete whose
\* thread is the ThreadID of no chat state, or a TurnComplete whose chat has an
\* empty Buffer.
DroppedEvent(event) ==
    \/ /\ event.type \in {"AgentDelta", "TurnComplete"}
       /\ findChatByThread(event.thread) = {}
    \/ /\ event.type = "TurnComplete"
       /\ findChatByThread(event.thread) # {}
       /\ \A c \in findChatByThread(event.thread) : chatStates[c].Buffer = <<>>

\* A directive token occurs in s.
HasDirective(s) ==
    \E i \in 1..Len(s) :
        \/ ReactionMatchEnd(s, i) # 0
        \/ MentionMatch(s, i)[1] # 0
        \/ MentionAllMatchEnd(s, i) # 0

\* The TYPEs of the [REACTION:TYPE] occurrences of s, left to right.
RECURSIVE ReactionTypes(_, _)
ReactionTypes(s, i) ==
    IF i > Len(s) THEN <<>>
    ELSE LET e == ReactionMatchEnd(s, i)
         IN IF e # 0 THEN <<SubSeq(s, i + 3, e - 1)>> \o ReactionTypes(s, e + 1)
            ELSE ReactionTypes(s, i + 1)

HasMentionAll(s) == \E i \in 1..Len(s) : MentionAllMatchEnd(s, i) # 0

Replied == probe.op = "reply" /\ probe.stage = "out"

----------------------------------------------------------------------------
\* C1: for every chat at most one turn is in flight: while a turn that was
\* set up has not ended, the chat's processing flag is true and no second
\* turn has been started for the chat.  (Stated for the runs in which the
\* backend sends no Error event, which the claim counts as the end of a turn.)
C1_OneTurnInFlight ==
    errorsSent = 0 =>
        \A c \in Chats :
            /\ InFlight(c) # {} => chatStates[c].Processing
            /\ Cardinality(InFlight(c)) <= 1

\* C2: the text the directive parser is handed at TurnComplete is the
\* concatenation, in order, of all the deltas the backend streamed for the turn.
C2_DeltasConcatenated ==
    \A t \in DOMAIN turns :
        (reqs[turns[t].req].st = "started" /\ turns[t].status = "ended")
            => turns[t].handed = Emitted(t)

\* C3: when the TurnComplete of a turn that was set up is handled for a thread of a chat whose buffer is
\* not empty, the reply callback gets the chat, the msg_id of the message that
\* started the turn, the stripped text and the mentions, the session is marked
\* replied, and afterwards the chat's processing flag is false (or is about to
\* be cleared by the goroutine that set the turn up, if that has not returned).
C3_TurnCompleteReplies ==
    [][(Handles("TurnComplete") /\ reqs[turns[Head(events).turn].req].st = "started") =>
        \A c \in findChatByThread(Head(events).thread) :
            chatStates[c].Buffer # <<>> =>
                /\ replies' = Append(replies,
                      [chat |-> c, msgID |-> turns[Head(events).turn].msgID,
                       text |-> parseResponse(chatStates[c].Buffer).text,
                       mentions |-> parseResponse(chatStates[c].Buffer).mentions,
                       turn |-> Head(events).turn])
                /\ sessions'[c].LastReplyAt = Len(replies')
                /\ \/ ~chatStates'[c].Processing
                   \/ /\ pm'[c].pc \in {"record", "defer"}
                      /\ pm'[c].req = turns[Head(events).turn].req]_vars

\* C4: within a chat replies come in request order: every reply to a turn that
\* was set up carries the
\* msg_id of the request that started its turn, and no reply to a later
\* request precedes the reply to an earlier one.
C4_RepliesInRequestOrder ==
    LET answered == {i \in DOMAIN replies : reqs[turns[replies[i].turn].req].st = "started"}
    IN /\ \A i \in answered : replies[i].msgID = turns[replies[i].turn].msgID
       /\ \A i, j \in answered :
             (i < j /\ replies[i].chat = replies[j].chat)
                 => turns[replies[i].turn].req < turns[replies[j].turn].req

\* C5: when the set-up of an accepted request fails, one failure message is
\* sent to the chat, the chat's processing flag is cleared, and the request is
\* not set up again: every chat has received as many failure messages as it
\* has failed requests, a chat whose last accepted request failed is not
\* processing, and a failed request has at most the one turn/start its set-up
\* submitted.
C5_SetupFailureReported ==
    \A c \in Chats :
        /\ sentTexts[c].fail = Cardinality(FailedReqs(c))
        /\ (LastReq(c) # 0 /\ reqs[LastReq(c)].st = "failed")
              => (~chatStates[c].Processing /\ pm[c].pc = "idle")
        /\ \A i \in FailedReqs(c) :
              /\ pm[c].req # i
              /\ Cardinality({t \in DOMAIN turns : turns[t].req = i}) <= 1

\* C5's case: the set-up of a request has failed.
C5_Witness == \E c \in Chats : FailedReqs(c) # {}

\* C6: when an Error event is handled while a chat has a turn in flight, the
\* chat's processing flag is cleared and a failure message is sent to it.
C6_ErrorEventReported ==
    [][Handles("Error") =>
        \A c \in Chats :
            (InFlight(c) # {} \/ chatStates[c].Processing) =>
                /\ ~chatStates'[c].Processing
                /\ sentTexts'[c].fail = sentTexts[c].fail + 1]_vars

\* C7: HandleMessage called for a chat whose processing flag is true returns
\* the busy error and changes nothing: not the chat state, not the set-up
\* goroutines, not the accepted requests, not the backend's turns.
C7_BusyRejected ==
    [][(last'.called /\ last'.busyBefore) =>
        /\ last'.result = "busy"
        /\ chatStates' = chatStates
        /\ pm' = pm
        /\ reqs' = reqs
        /\ turns' = turns]_vars

\* C8: in a digest run, for a chat with unprocessed messages that the
\* classifier does not skip (it says yes, or there is none) and that is not
\* busy, the digest request is accepted for a turn.
C8_DigestSubmitted ==
    (last.called /\ last.caller = "digest" /\ last.gate # "no" /\ ~last.busyBefore)
        => last.result = "accepted"

\* C9: a message triage makes immediate is accepted for a turn, unless the
\* chat is busy, whatever the classifier says and whether or not there is one.
C9_ImmediateNotGated ==
    (last.called /\ last.caller = "ingress" /\ ~last.busyBefore)
        => last.result = "accepted"

\* C10: every buffered message is eventually marked processed, or removed,
\* when the digest loop keeps running.
C10_BufferedEventuallyProcessed ==
    \A n \in 1..MaxMsgs : HasUnprocessed(MsgName(n)) ~> ~HasUnprocessed(MsgName(n))

\* C10's case: a digest run has marked a buffered message processed.
C10_Witness == \E r \in buffered : r.processed

\* C11: when Trigger has submitted the turn of a request, the chat's session
\* row has last_processed_msg_id = the request's msg_id and, for a request
\* that carries the platform's create_time, last_msg_time = that create_time.
C11_SessionAnchored ==
    [][\A c \in Chats :
          (pm[c].pc = "trigger" /\ pm'[c].pc = "record") =>
              LET req == reqs[pm[c].req]
              IN /\ sessions'[c].exists
                 /\ sessions'[c].LastProcessedMsgID = req.msgID
                 /\ req.createTime > 0 =>
                        sessions'[c].LastMsgTime * 1000 = req.createTime]_vars

\* C12: a delivery of a message whose msg_id was inserted into the dedup cache
\* no more than 5 minutes earlier is dropped: it inserts no buffered row, calls
\* HandleMessage for no request, sends nothing and leaves the cache as it is.
C12_RedeliveryDropped ==
    [][(/\ probe'.arrived # ""
        /\ probe'.arrived \in DOMAIN probe.insertedAt
        /\ now - probe.insertedAt[probe'.arrived] <= DedupWindow)
        => /\ buffered' = buffered
           /\ ~last'.called
           /\ reqs' = reqs /\ pm' = pm /\ chatStates' = chatStates
           /\ sentTexts' = sentTexts
           /\ seenMsgs' = seenMsgs]_vars

\* Chat c's goroutine submits its turn in this step.
Submits(c) == pm[c].pc = "trigger" /\ pm'[c].pc = "record"

\* C16: a turn submission's thread decision is the stored thread and cursors,
\* not new, exactly when a session existed, was fresh and its thread resumed;
\* in every other case the decision is a new thread that the persisted
\* session names.
C16_ResolveThread ==
    [][\A c \in Chats :
          Submits(c) =>
              LET r == reqs'[pm[c].req]
                  old == sessions[c]
              IN IF old.exists /\ r.res.fresh /\ r.res.probeOK
                 THEN /\ ~r.dec.IsNew
                      /\ r.dec.ThreadID = old.ThreadID
                      /\ r.dec.LastProcessedMsgID = old.LastProcessedMsgID
                      /\ r.dec.LastMsgTime = old.LastMsgTime
                      /\ r.dec.LastReplyAt = old.LastReplyAt
                      /\ sessions'[c].ThreadID = old.ThreadID
                      /\ nextThread' = nextThread
                 ELSE /\ r.dec.IsNew
                      /\ r.dec.ThreadID = ThreadName(nextThread')
                      /\ nextThread' = nextThread + 1
                      /\ sessions'[c].exists
                      /\ sessions'[c].ThreadID = r.dec.ThreadID]_vars

\* C16's cases: one submission created the chat's thread and a later one
\* resumed it.
C16_Witness ==
    \E i, j \in DOMAIN reqs :
        /\ reqs[j].st = "started" /\ reqs[j].dec.IsNew
        /\ ~reqs[j].res.session.exists
        /\ reqs[i].st = "started" /\ ~reqs[i].dec.IsNew
        /\ reqs[i].chat = reqs[j].chat
        /\ reqs[i].res.session.exists /\ reqs[i].res.fresh /\ reqs[i].res.probeOK
        /\ reqs[i].dec.ThreadID = reqs[j].dec.ThreadID

\* C17: when a fresh session's thread fails to resume, the submission runs on
\* a thread created in the same step, the persisted session names that thread
\* and keeps nothing of the old session's cursors, and the prompt of the turn
\* is formatted as for a new thread.
C17_ResumeFailureRecreates ==
    [][\A c \in Chats :
          (/\ Submits(c)
           /\ sessions[c].exists
           /\ reqs'[pm[c].req].res.fresh /\ ~reqs'[pm[c].req].res.probeOK) =>
              LET r == reqs'[pm[c].req]
                  t == turns'[Len(turns')]
              IN /\ nextThread' = nextThread + 1
                 /\ r.dec = [NoDecision EXCEPT !.IsNew = TRUE,
                                               !.ThreadID = ThreadName(nextThread')]
                 /\ sessions'[c].exists
                 /\ sessions'[c].ThreadID = ThreadName(nextThread')
                 /\ sessions'[c].ThreadID # sessions[c].ThreadID
                 /\ sessions'[c].LastProcessedMsgID = r.msgID
                 /\ sessions'[c].LastReplyAt = NoSession.LastReplyAt
                 /\ Len(turns') = Len(turns) + 1
                 /\ t.thread = ThreadName(nextThread')
                 /\ t.format = "new"]_vars

\* C17's case: a submission whose fresh session failed to resume.
C17_Witness ==
    \E i \in DOMAIN reqs :
        /\ reqs[i].st = "started" /\ reqs[i].dec.IsNew
        /\ reqs[i].res.session.exists /\ reqs[i].res.fresh /\ ~reqs[i].res.probeOK

\* C18: IsFresh answers false exactly when the idle timeout is enabled and
\* exceeded, or the reset hour is enabled and either now is at or after
\* today's reset with the session updated before it, or now is before
\* today's reset with the session updated before yesterday's.
C18_StaleExactly ==
    (probe.op = "fresh" /\ probe.stage = "out") =>
        LET n == probe.clock
            u == probe.UpdatedAt
            cfg == probe.cfg
            today_reset == TodayReset(n, cfg.ResetHour)
            stale ==
                \/ cfg.IdleTimeout > 0 /\ n - u > cfg.IdleTimeout
                \/ /\ cfg.ResetHour \in 0..23
                   /\ \/ n >= today_reset /\ u < today_reset
                      \/ n < today_reset /\ u < today_reset - HoursPerDay
        IN probe.result <=> ~stale

C20_TruncateHistory ==
    (probe.op = "truncate" /\ probe.stage = "out") =>
        LET h == probe.messages
            out == probe.result
            N == probe.cfg.MaxHistoryCount
            len == Len(h)
            tail == IF N <= 0 \/ N > len THEN len
                    ELSE IF N < len THEN N ELSE len
        IN /\ \E S \in SUBSET DOMAIN h : out = KeepIdx(h, S, 1)
           /\ Len(out) <= len
           /\ Len(out) >= tail
           /\ SubSeq(out, Len(out) - tail + 1, Len(out)) = SubSeq(h, len - tail + 1, len)
           /\ \A k \in 1..(Len(out) - tail) :
                  \E j \in 1..(len - tail) :
                      /\ h[j] = out[k]
                      /\ h[j].CreateTime > probe.clock - probe.cfg.MaxHistoryMinutes

\* C20's case: of three messages the last is kept by count, one older message
\* is kept by its age and one is dropped.
C20_Witness ==
    /\ probe.op = "truncate" /\ probe.stage = "out"
    /\ Len(probe.messages) = 3
    /\ probe.cfg.MaxHistoryCount = 1
    /\ probe.result = <<probe.messages[2], probe.messages[3]>>

\* The rows of priority 2 or more whose keyword the content holds.
HighHits(content) ==
    {k \in keywords : k.priority >= 2 /\ Contains(ToLower(content), ToLower(k.keyword))}

\* C21: triage answers immediate with the reason of the first rule that
\* matches: mentioned, then whitelist, then keyword:<kw> for a matching
\* keyword of priority 2 or more; with none of them the message is not
\* immediate, whatever priority-1 keywords it matches.
C21_TriageRules ==
    probe.op = "triage" =>
        \A i \in DOMAIN probe.log :
            LET e == probe.log[i]
            IN IF e.mentionsBot THEN e.immediate /\ e.reason = "mentioned"
               ELSE IF e.chat \in whitelist THEN e.immediate /\ e.reason = "whitelist"
               ELSE IF HighHits(e.content) # {}
                    THEN /\ e.immediate
                         /\ \E k \in HighHits(e.content) :
                                e.reason = "keyword:" \o Join(k.keyword)
               ELSE ~e.immediate

\* C21's case: a message made immediate by a keyword of priority 2 or more
\* while a priority-1 keyword matches it too.
C21_Witness ==
    /\ probe.op = "triage"
    /\ \E i \in DOMAIN probe.log :
          /\ probe.log[i].reason = "keyword:de"
          /\ [keyword |-> <<"bug">>, priority |-> 1] \in keywords

\* The message handleMessage triaged in this step is a group message that
\* does not mention the bot, from a chat off the whitelist, with no keyword
\* of priority 2 or more.
BufferCase(e) ==
    /\ ChatTypeOf(e.chat) = "group" /\ ~e.mentionsBot
    /\ e.chat \notin whitelist
    /\ HighHits(e.content) = {}

\* C22: such a message starts no backend request at ingress and leaves
\* exactly one row for its msg_id in buffered_messages, unprocessed.
C22_BufferedNotSubmitted ==
    [][(probe.op = "triage" /\ Len(probe'.log) = Len(probe.log) + 1
            /\ BufferCase(probe'.log[Len(probe'.log)])) =>
          LET e == probe'.log[Len(probe'.log)]
          IN /\ ~last'.called
             /\ reqs' = reqs /\ pm' = pm /\ chatStates' = chatStates
             /\ turns' = turns
             /\ Cardinality({r \in buffered' : r.msg_id = e.msgID}) = 1
             /\ \A r \in buffered' :
                    r.msg_id = e.msgID => r.chat_id = e.chat /\ ~r.processed]_vars

\* C22's case: a buffered message that matches a priority-1 keyword.
C22_Witness ==
    /\ probe.op = "triage"
    /\ \E i \in DOMAIN probe.log :
          /\ BufferCase(probe.log[i])
          /\ \E k \in keywords :
                 k.priority = 1 /\ Contains(ToLower(probe.log[i].content), k.keyword)
          /\ \E r \in buffered : r.msg_id = probe.log[i].msgID /\ ~r.processed

Digests(c) == c \in DOMAIN digestPending /\ c \notin DOMAIN digestPending'

\* Every message of the set has its row marked processed in the next state.
AllProcessedNext(messages) ==
    \A m \in messages : \A r \in buffered' : r.msg_id = m.msg_id => r.processed

\* C24: when the scheduler's classifier answers no for a chat of the digest
\* run, all the chat's unprocessed messages become processed and the run
\* submits nothing for the chat: HandleMessage is not called, no request, no
\* goroutine and no turn appears.
C24_DigestNoSkips ==
    [][\A c \in Chats :
          (Digests(c) /\ last' = SchedulerSkip(c)) =>
              /\ digestPending[c] # {}
              /\ \A m \in digestPending[c] : \E r \in buffered' : r.msg_id = m.msg_id
              /\ AllProcessedNext(digestPending[c])
              /\ reqs' = reqs /\ pm' = pm /\ turns' = turns
              /\ chatStates' = chatStates
              /\ \A i \in DOMAIN reqs' :
                     ~(reqs'[i].chat = c /\ reqs'[i].msgID = DigestMsgID(digestRuns))]_vars

\* C24's case: the classifier said no for a chat with two buffered messages.
C24_Witness ==
    /\ last = SchedulerSkip("g1")
    /\ Cardinality({r \in buffered : r.chat_id = "g1" /\ r.processed}) = 2
    /\ reqs = <<>>

\* C25: when the classifier did not say no, all the chat's messages of the
\* run are marked processed in processWithCodex whether HandleMessage
\* accepted the digest request, rejected it for a busy chat or skipped it,
\* and no later step, the turn's failure included, makes them unprocessed.
C25_DigestMarksAlways ==
    [][/\ \A c \in Chats :
            (Digests(c) /\ last'.called /\ last'.caller = "digest") =>
                /\ digestPending[c] # {}
                /\ AllProcessedNext(digestPending[c])
       /\ \A r \in buffered : r.processed => AllProcessedNext({r})]_vars

\* C25's cases: a digest request rejected for a busy chat, and one whose
\* set-up failed, with the messages processed.
C25_Witness ==
    /\ buffered # {} /\ \A r \in buffered : r.processed
    /\ \/ last.called /\ last.caller = "digest" /\ last.result = "busy"
       \/ \E i \in DOMAIN reqs : reqs[i].caller = "digest" /\ reqs[i].st = "failed"

\* C26: every line of the backend that carries both an id and a method is
\* answered: reading it, the client writes an accept decision for that id,
\* and hands the line to no waiting request.
C26_ApprovalsAccepted ==
    [][(probe.op = "acp" /\ Len(probe'.read) = Len(probe.read) + 1) =>
          LET line == probe'.read[Len(probe'.read)]
          IN (line.id # 0 /\ line.method # "") =>
                 /\ probe'.written =
                        Append(probe.written, [ID |-> line.id, Decision |-> "accept"])
                 /\ probe'.delivered = probe.delivered
                 /\ probe'.pending = probe.pending]_vars

\* Nothing of the program is left to run: no event waits and no
\* processMessage goroutine is alive.
Quiescent == events = <<>> /\ \A c \in Chats : pm[c].pc = "idle"

\* C27: a turn that was running when the backend went away, and whose
\* submission had succeeded, gets no reply, and an error is reported in its
\* chat: once the program has nothing left to run, a failure text has been
\* sent to the chat since the EOF.
C27_BackendGoneReported ==
    (probe.op = "gone" /\ ~probe.up) =>
        \A t \in probe.inflight :
            reqs[turns[t].req].st = "started" =>
                /\ \A i \in DOMAIN replies : replies[i].turn # t
                /\ Quiescent =>
                       sentTexts[turns[t].chat].fail > probe.failsAtEof[turns[t].chat]

\* C28: a request whose thread resolution met a session store error is
\* still submitted: the backend has a turn for it, with the prompt of a new
\* thread, and no failure is recorded for it.
C28_StoreFailureTolerated ==
    probe.op = "store" =>
        \A i \in probe.failed :
            /\ reqs[i].st # "failed"
            /\ \E t \in DOMAIN turns : turns[t].req = i /\ turns[t].format = "new"

\* C29: once the shutdown signal has arrived the process ends, whatever the
\* signal met (idle loops, a digest run in progress, requests pending); when
\* it has ended both loops of the scheduler have returned, the sub-process's
\* stdin is closed and the sub-process is gone, and Client.Stop never waited
\* for it longer than 5 seconds and killed it only at the 5th.
C29_ShutdownBounded ==
    /\ [](probe.op = "shutdown" =>
            /\ probe.waited <= KillWait
            /\ probe.killed => probe.waited = KillWait
            /\ ShutdownOver =>
                   /\ probe.digestLoop = "done" /\ probe.cleanupLoop = "done"
                   /\ probe.stdin = "closed"
                   /\ probe.proc = "exited")
    /\ (probe.op = "shutdown" /\ probe.main # "serving") ~> ShutdownOver

\* C29 happens: the signal met a digest run in progress and a pending request,
\* the sub-process was killed after the wait, and main has exited.
C29_Witness ==
    /\ probe.op = "shutdown"
    /\ probe.main = "exit"
    /\ probe.atSignal.digestLoop = "run"
    /\ probe.atSignal.pending > 0
    /\ probe.killed

\* C30: a step of HandleCodexEvent that takes an AgentDelta or TurnComplete of
\* a thread no chat state holds, or a TurnComplete whose chat has an empty
\* Buffer, adds no reply (the reply record stands for the DONE reaction and the
\* onReply call, which the handler makes together), sends no text to any chat
\* and leaves every chat's Buffer and MsgID as they were.
C30_DroppedEventsSilent ==
    [][(events # <<>> /\ events' = Tail(events) /\ DroppedEvent(Head(events))) =>
          /\ replies' = replies
          /\ sentTexts' = sentTexts
          /\ \A c \in Chats :
                /\ chatStates'[c].Buffer = chatStates[c].Buffer
                /\ chatStates'[c].MsgID = chatStates[c].MsgID]_vars

\* C30 happens: the backend sent deltas for a turn and completed it, the
\* TurnComplete was handled, and the turn has no reply.
C30_Witness ==
    \E t \in DOMAIN turns :
        /\ turns[t].status = "ended"
        /\ turns[t].sent > 0
        /\ \A i \in DOMAIN replies : replies[i].turn # t

\* C31: AddMessage of a message whose msg_id the table already holds returns
\* no error and leaves the table as it was: one row for the msg_id, with the
\* content and the processed flag it had.
C31_DuplicateAddIgnored ==
    [][(probe.op = "buffer" /\ probe'.call.kind = "add" /\ probe'.call.existed) =>
          /\ ~probe'.call.err
          /\ probe'.rows = probe.rows
          /\ \E r \in probe.rows :
                /\ r.msg_id = probe'.call.msg.MsgID
                /\ \A q \in probe'.rows : q.msg_id = r.msg_id => q = r]_vars

\* C31 happens: a message was added again with another content after its row
\* had been marked processed.
C31_Witness ==
    /\ probe.op = "buffer"
    /\ probe.call.kind = "add"
    /\ probe.call.existed
    /\ \E r \in probe.rows :
          /\ r.msg_id = probe.call.msg.MsgID
          /\ r.content # probe.call.msg.Content
          /\ r.processed

\* The rows a cleanup step deleted.
Deleted == probe.rows \ probe'.rows

\* C32 as claimed: cleanup(before) deletes exactly the processed rows created
\* before the cutoff.
C32_CleanupExact ==
    [][(probe.op = "buffer" /\ probe'.call.kind = "cleanup") =>
          Deleted = {r \in probe.rows :
                       r.processed /\ probe.made[r.msg_id] < probe'.call.before}]_vars

\* C32, amended: cleanup(before) deletes only processed rows created before the
\* cutoff, and every processed row created a second or more before it; it
\* adds and changes no row.
C32_CleanupOnlyProcessedOld ==
    [][(probe.op = "buffer" /\ probe'.call.kind = "cleanup") =>
          /\ probe'.rows \subseteq probe.rows
          /\ \A r \in Deleted :
                r.processed /\ probe.made[r.msg_id] < probe'.call.before
          /\ \A r \in probe.rows :
                (r.processed /\
                 probe.made[r.msg_id] + TicksPerSecond <= probe'.call.before)
                    => r \in Deleted]_vars

\* C32 happens: a cleanup deleted a processed row and kept an unprocessed row
\* that is as old.
C32_Witness ==
    /\ probe.op = "buffer"
    /\ probe.call.kind = "cleanup"
    /\ \E m \in DOMAIN probe.made :
          /\ \A r \in probe.rows : r.msg_id # m
          /\ \E r \in probe.rows :
                ~r.processed /\ probe.made[r.msg_id] <= probe.made[m]

\* The triage call of this step, if the step is one: the entry it adds to the
\* log.
Triaged == probe'.log[Len(probe'.log)]

\* C33: a triage of a group message that does not mention the bot observes
\* the last successful write of the tool surface: after a POST of its chat to
\* the whitelist it is immediate with reason "whitelist" and not buffered;
\* after a DELETE of its chat the reason is never "whitelist" and, with no
\* matching keyword of priority 2 or more, it is buffered; after a POST of a
\* keyword of priority 2 or more that its content holds it is immediate, and
\* after a DELETE of a keyword that keyword is never the reason.
C33_WritesObserved ==
    [][(probe.op = "tool" /\ Len(probe'.log) = Len(probe.log) + 1
            /\ ChatTypeOf(Triaged.chat) = "group" /\ ~Triaged.mentionsBot) =>
          /\ probe.lastWrite[Triaged.chat] = "post" =>
                /\ Triaged.immediate /\ Triaged.reason = "whitelist"
                /\ \A r \in buffered' : r.msg_id # Triaged.msgID
          /\ probe.lastWrite[Triaged.chat] = "delete" =>
                /\ Triaged.reason # "whitelist"
                /\ HighHits(Triaged.content) = {} =>
                      /\ ~Triaged.immediate
                      /\ \E r \in buffered' : r.msg_id = Triaged.msgID /\ ~r.processed
          /\ \A k \in ToolKeywords :
                /\ (probe.lastKeyword[k].kind = "post"
                        /\ probe.lastKeyword[k].priority >= 2
                        /\ Contains(ToLower(Triaged.content), ToLower(k))) =>
                      /\ Triaged.immediate
                      /\ \A r \in buffered' : r.msg_id # Triaged.msgID
                /\ probe.lastKeyword[k].kind = "delete" =>
                      Triaged.reason # "keyword:" \o Join(k)]_vars

\* C33 happens: a message of the group chat was triaged immediate by the
\* whitelist, and after a DELETE a later one was buffered.
C33_Witness ==
    /\ probe.op = "tool"
    /\ probe.lastWrite["g1"] = "delete"
    /\ \E i, j \in DOMAIN probe.log :
          /\ i < j
          /\ probe.log[i].chat = "g1" /\ probe.log[i].reason = "whitelist"
          /\ probe.log[j].chat = "g1" /\ ~probe.log[j].immediate
          /\ \E r \in buffered : r.msg_id = probe.log[j].msgID

\* C34: a chat's Buffer changes only in a step of the event dispatch taken
\* while the chat's Processing is true; the one other change is the reset
\* HandleMessage makes as it sets Processing.
C34_BufferOnlyWhileProcessing ==
    [][\A c \in Chats :
          chatStates'[c].Buffer # chatStates[c].Buffer =>
              \/ /\ events # <<>> /\ events' = Tail(events)
                 /\ chatStates[c].Processing
              \/ /\ chatStates'[c].Buffer = <<>>
                 /\ ~chatStates[c].Processing /\ chatStates'[c].Processing]_vars

\* C35: when HandleCodexEvent has handled a TurnComplete for a chat the chat's
\* Buffer is empty, and a TurnComplete for a turn that has a reply adds no
\* second reply.
C35_BufferConsumed ==
    [][(events # <<>> /\ events' = Tail(events)
            /\ Head(events).type = "TurnComplete") =>
          /\ \A c \in findChatByThread(Head(events).thread) :
                chatStates'[c].Buffer = <<>>
          /\ (\E i \in DOMAIN replies : replies[i].turn = Head(events).turn) =>
                replies' = replies]_vars

\* C36: a line readLoop reads is handed to a waiting request only if it is a
\* response (it has an id and no method) and the request of its id is pending,
\* and then to that request alone, which stops being pending; a line with a
\* method, whatever its id, is handed to no request and leaves the pending
\* requests as they were.
C36_ResponsesRouted ==
    [][(probe.op = "acp" /\ Len(probe'.read) = Len(probe.read) + 1) =>
          LET line == probe'.read[Len(probe'.read)]
          IN IF line.method = "" /\ line.id \in probe.pending
             THEN /\ probe'.delivered = Append(probe.delivered, line)
                  /\ probe'.pending = probe.pending \ {line.id}
             ELSE /\ probe'.delivered = probe.delivered
                  /\ probe'.pending = probe.pending]_vars

\* C37: of the goroutines that handle deliveries of one msg_id at most one
\* passes the dedup check and goes on to triage the message.
C37_DedupAtomic ==
    probe.op = "race" => \A n \in 1..MaxMsgs : probe.triaged[n] <= 1

\* C38: a chat whose Processing is true leads to that chat's Processing being
\* false, in every execution: the turn is answered, its TurnComplete finds an
\* empty Buffer or is dropped, or the backend does not answer the request.
C38_BusyEnds ==
    \A c \in Chats : chatStates[c].Processing ~> ~chatStates[c].Processing

\* C38 happens: a request was accepted and its turn's TurnComplete was
\* dropped, the set-up of another failed, and no chat is busy.
C38_Witness ==
    /\ probe.op = "busy"
    /\ \E t \in probe.dropped : reqs[turns[t].req].st = "started"
    /\ \E i \in DOMAIN reqs : reqs[i].st = "failed"
    /\ \A c \in Chats : ~chatStates[c].Processing

\* C39: no goroutine sends on c.events or on r.eventsCh after the channel was
\* closed, however Stop interleaves with the lines still read and the events
\* still forwarded.
C39_NoSendOnClosed ==
    probe.op = "fanout" => probe.panic = "none"

\* C40: the event channels never hold more than their capacity, and every
\* notification dropped at a full channel has its log line.
C40_DropsLogged ==
    probe.op = "fanout" =>
        /\ probe.events <= EventsCap /\ probe.eventsCh <= EventsCap
        /\ probe.logged.events = probe.dropped.events
        /\ probe.logged.eventsCh = probe.dropped.eventsCh

\* C13: the text handed to the reply callback holds no directive token,
\* whatever the backend's output.
C13_NoDirectiveInReply == Replied => ~HasDirective(probe.calls.text)

\* C14: for every [REACTION:TYPE] occurrence in the output, AddReaction is
\* called with TYPE against the message that started the turn, as many times
\* as TYPE occurs.
C14_ReactionsAdded ==
    Replied =>
        LET wanted == ReactionTypes(probe.response, 1)
            added == probe.calls.reactions
        IN \A i \in DOMAIN wanted :
              Cardinality({j \in DOMAIN added :
                              added[j].type = wanted[i] /\ added[j].msgID = MsgName(1)})
                  = Cardinality({k \in DOMAIN wanted : wanted[k] = wanted[i]})

\* C15: a reply is sent by the @all send exactly when the output holds
\* [MENTION_ALL], and the token is not in the text.
C15_MentionAllBranch ==
    Replied =>
        /\ (probe.calls.send = "SendTextMentionAll") <=> HasMentionAll(probe.response)
        /\ ~HasMentionAll(probe.calls.text)

\* C12's case: a message is delivered again exactly 5 minutes after its
\* insertion, after another message's insertion swept the cache, and dropped.
C12_Witness ==
    /\ probe.op = "dedup"
    /\ probe.arrived # ""
    /\ probe.dropped
    /\ now - probe.insertedAt[probe.arrived] = DedupWindow
    /\ \E m \in DOMAIN probe.insertedAt : probe.insertedAt[m] = now

====
